---- MODULE Spec2Model ----
(***************************************************************************)
(* Model of the VTEX IO MCP server: the OpenAPI-driven execution engine    *)
(* (APIExecutor, parameterCategorizer, errorMapper) and the JSON-RPC       *)
(* handlers that expose it (mcpRouter and the per-endpoint middlewares).   *)
(*                                                                         *)
(* Strings whose characters the code inspects (paths, parameter names and  *)
(* values, operation ids, group and tool names) are sequences of           *)
(* one-character strings.  A JavaScript string that is undefined or ''     *)
(* is the empty sequence: every test the code makes on such a value is a   *)
(* truthiness test, which cannot tell the two apart.                       *)
(***************************************************************************)
EXTENDS Integers, Sequences, FiniteSets, TLC

VARIABLES phase, state, request, environment, ctx, calls, handler

vars == <<phase, state, request, environment, ctx, calls, handler>>

-----------------------------------------------------------------------------
(* Characters and strings *)

UpperChars == <<"A","B","C","D","E","F","G","H","I","J","K","L","M",
                "N","O","P","Q","R","S","T","U","V","W","X","Y","Z">>

LowerChars == <<"a","b","c","d","e","f","g","h","i","j","k","l","m",
                "n","o","p","q","r","s","t","u","v","w","x","y","z">>

DigitChars == <<"0","1","2","3","4","5","6","7","8","9">>

Range(s) == {s[i] : i \in DOMAIN s}

toLowerChar(c) ==
    IF \E i \in DOMAIN UpperChars : UpperChars[i] = c
    THEN LowerChars[CHOOSE i \in DOMAIN UpperChars : UpperChars[i] = c]
    ELSE c

\* a comparison key that keeps the case
keepCase(s) == s

\* String.prototype.toLowerCase
toLowerCase(s) == [i \in DOMAIN s |-> toLowerChar(s[i])]

\* characters encodeURIComponent leaves alone
UriUnreserved ==
    Range(UpperChars) \cup Range(LowerChars) \cup Range(DigitChars)
        \cup {"-", "_", ".", "!", "~", "*", "'", "(", ")"}

\* UTF-8 percent escapes of the ASCII characters encodeURIComponent escapes
PercentEscape(c) ==
    CASE c = " " -> <<"%","2","0">>
      [] c = "#" -> <<"%","2","3">>
      [] c = "$" -> <<"%","2","4">>
      [] c = "%" -> <<"%","2","5">>
      [] c = "&" -> <<"%","2","6">>
      [] c = "+" -> <<"%","2","B">>
      [] c = "," -> <<"%","2","C">>
      [] c = "/" -> <<"%","2","F">>
      [] c = ":" -> <<"%","3","A">>
      [] c = "=" -> <<"%","3","D">>
      [] c = "?" -> <<"%","3","F">>
      [] c = "@" -> <<"%","4","0">>
      [] c = "{" -> <<"%","7","B">>
      [] c = "}" -> <<"%","7","D">>

\* a path builder that writes values as given, without escaping
writeVerbatim(s) == s

RECURSIVE encodeURIComponent(_)
encodeURIComponent(s) ==
    IF s = <<>> THEN <<>>
    ELSE (IF Head(s) \in UriUnreserved THEN <<Head(s)>> ELSE PercentEscape(Head(s)))
             \o encodeURIComponent(Tail(s))

\* first index at which sub occurs in s, 0 when it does not occur
IndexOf(s, sub) ==
    LET hits == {i \in 1..(Len(s) - Len(sub) + 1) :
                    SubSeq(s, i, i + Len(sub) - 1) = sub}
    IN  IF hits = {} THEN 0 ELSE CHOOSE i \in hits : \A j \in hits : i <= j

\* String.prototype.includes
Includes(s, sub) == IndexOf(s, sub) # 0

\* String.prototype.replace(string, string) with a replacement free of '$':
\* only the first occurrence is replaced
ReplaceFirst(s, sub, by) ==
    LET i == IndexOf(s, sub)
    IN  IF i = 0 THEN s
        ELSE SubSeq(s, 1, i - 1) \o by \o SubSeq(s, i + Len(sub), Len(s))

\* finalPath.match(/\{[^}]+\}/g) is not null
HasPlaceholder(s) ==
    \E i \in DOMAIN s : \E j \in DOMAIN s :
        /\ s[i] = "{"
        /\ s[j] = "}"
        /\ j > i + 1
        /\ \A k \in (i + 1)..(j - 1) : s[k] # "}"

-----------------------------------------------------------------------------
(* The OpenAPI document served for the enabled group *)

Methods == <<"get", "post", "put", "patch", "delete", "head", "options">>

toUpperVerb(m) ==
    CASE m = "get" -> "GET"
      [] m = "post" -> "POST"
      [] m = "put" -> "PUT"
      [] m = "patch" -> "PATCH"
      [] m = "delete" -> "DELETE"
      [] m = "head" -> "HEAD"
      [] m = "options" -> "OPTIONS"
      [] OTHER -> m

toLowerVerb(m) ==
    CASE m = "GET" -> "get"
      [] m = "POST" -> "post"
      [] m = "PUT" -> "put"
      [] m = "PATCH" -> "patch"
      [] m = "DELETE" -> "delete"
      [] m = "HEAD" -> "head"
      [] m = "OPTIONS" -> "options"
      [] OTHER -> m

Parameter(n, loc, req) == [name |-> n, in |-> loc, required |-> req]

Operation(id, ps) == [operationId |-> id, parameters |-> ps]

Null == [null |-> TRUE]

PathOA == <<"/","o","/","{","a","}">>
PathO == <<"/","o">>
PathOAB == <<"/","o","/","{","a","}","/","{","b","}">>
PathUA == <<"/","u","/","{","a","}">>
PathDAA == <<"/","d","/","{","a","}","/","{","a","}">>
PathH == <<"/","h">>

GetA == <<"G","e","t","A">>
DelA == <<"D","e","l","A">>
ListO == <<"L","i","s","t","O">>
PutAB == <<"P","u","t","A","B">>
PostU == <<"P","o","s","t","U">>
GetD == <<"G","e","t","D">>
GetH == <<"G","e","t","H">>
\* an id that differs from GetH by case only
GetHLower == <<"g","e","t","h">>

\* parameter names of the header and cookie parameters
AcceptName == <<"A","c","c","e","p","t">>
HName == <<"h">>
CName == <<"c">>

\* spec.paths in Object.entries order
OpenApiSpec ==
    [paths |-> <<
        [path |-> PathOA,
         item |-> [m \in {"get", "delete"} |->
                     IF m = "get"
                     THEN Operation(GetA, <<Parameter(<<"a">>, "path", TRUE)>>)
                     ELSE Operation(DelA, <<Parameter(<<"a">>, "path", TRUE)>>)]],
        [path |-> PathO,
         item |-> [m \in {"get"} |->
                     Operation(ListO, <<Parameter(<<"p">>, "query", FALSE),
                                        Parameter(<<"q">>, "query", TRUE)>>)]],
        [path |-> PathOAB,
         item |-> [m \in {"put"} |->
                     Operation(PutAB, <<Parameter(<<"a">>, "path", TRUE),
                                        Parameter(<<"b">>, "path", FALSE)>>)]],
        [path |-> PathUA,
         item |-> [m \in {"post"} |-> Operation(PostU, <<>>)]],
        [path |-> PathDAA,
         item |-> [m \in {"get"} |->
                     Operation(GetD, <<Parameter(<<"a">>, "path", TRUE)>>)]],
        [path |-> PathH,
         item |-> [m \in {"get", "post"} |->
                     IF m = "get"
                     THEN Operation(GetH, <<Parameter(AcceptName, "header", TRUE),
                                            Parameter(HName, "header", TRUE),
                                            Parameter(CName, "cookie", FALSE)>>)
                     ELSE Operation(GetHLower, <<>>)]]
    >>]

-----------------------------------------------------------------------------
(* Operation resolution (APIExecutor) *)

\* the (path index, verb index) pairs whose operation has the target id
IdMatches(spec, operationId) ==
    {pv \in (DOMAIN spec.paths) \X (DOMAIN Methods) :
        LET item == spec.paths[pv[1]].item
            m == Methods[pv[2]]
        IN  /\ m \in DOMAIN item
            /\ item[m].operationId # <<>>
            /\ toLowerCase(item[m].operationId) = toLowerCase(operationId)}

\* the first pair of a non-empty set in iteration order: paths outer, verbs inner
FirstMatch(S) ==
    CHOOSE pv \in S : \A o \in S :
        \/ pv[1] < o[1]
        \/ (pv[1] = o[1] /\ pv[2] <= o[2])

findOperation(spec, operationId) ==
    LET S == IdMatches(spec, operationId)
    IN  IF S = {} THEN Null
        ELSE spec.paths[FirstMatch(S)[1]].item[Methods[FirstMatch(S)[2]]]

\* throws when nothing matches: callers test found first
getMethodAndPath(spec, operationId) ==
    LET S == IdMatches(spec, operationId)
    IN  IF S = {} THEN [found |-> FALSE]
        ELSE [found |-> TRUE,
              method |-> toUpperVerb(Methods[FirstMatch(S)[2]]),
              path |-> spec.paths[FirstMatch(S)[1]].path]

PathIndex(spec, path) ==
    LET hits == {i \in DOMAIN spec.paths : spec.paths[i].path = path}
    IN  IF hits = {} THEN 0 ELSE CHOOSE i \in hits : TRUE

findOperationByPathAndMethod(spec, method, path) ==
    LET i == PathIndex(spec, path)
    IN  IF i = 0 THEN [found |-> FALSE, error |-> "PathNotFound"]
        ELSE IF toLowerVerb(method) \notin DOMAIN spec.paths[i].item
        THEN [found |-> FALSE, error |-> "MethodNotAvailable"]
        ELSE [found |-> TRUE,
              operation |-> spec.paths[i].item[toLowerVerb(method)],
              method |-> toUpperVerb(method),
              path |-> path]

-----------------------------------------------------------------------------
(* Parameter bags and thrown values *)

\* the property names callers and documents use
Keys == {<<"a">>, <<"b">>, <<"p">>, <<"q">>, AcceptName, HName, CName}

\* the value of a property: obj[name] is undefined when the name is absent
Undefined == [defined |-> FALSE, s |-> <<>>]

Val(t) == [defined |-> TRUE, s |-> t]

\* a Record<string, any>: what obj[name] gives for every name
EmptyBag == [n \in Keys |-> Undefined]

\* obj[name]
Get(bag, name) == IF name \in Keys THEN bag[name] ELSE Undefined

NoMessage == [kind |-> "none", name |-> <<>>, in |-> ""]

Message(k, n, loc) == [kind |-> k, name |-> n, in |-> loc]

\* a thrown value, with the members the error mapper probes; 0 is an absent
\* status (absent and 0 are both falsy)
Thrown(msg, err, respStatus) ==
    [message |-> msg, error |-> err, status |-> 0, statusCode |-> 0,
     responseStatus |-> respStatus, responseStatusCode |-> 0,
     metadataStatusCode |-> 0]

\* new Error(message)
NewError(msg) == Thrown(msg, NoMessage, 0)

-----------------------------------------------------------------------------
(* parameterCategorizer *)

categorizerFindOperation(spec, operationId) ==
    LET S == IdMatches(spec, operationId)
    IN  IF S = {} THEN Null
        ELSE spec.paths[FirstMatch(S)[1]].item[Methods[FirstMatch(S)[2]]]

categorizerFindOperationByPathAndMethod(spec, method, path) ==
    LET i == PathIndex(spec, path)
    IN  IF i = 0 THEN Null
        ELSE IF toLowerVerb(method) \notin DOMAIN spec.paths[i].item THEN Null
        ELSE spec.paths[i].item[toLowerVerb(method)]

\* operation.parameters.find((p) => p.name === paramName): 0 when none
ParamDefIndex(parameters, paramName) ==
    LET hits == {i \in DOMAIN parameters : parameters[i].name = paramName}
    IN  IF hits = {} THEN 0 ELSE CHOOSE i \in hits : \A j \in hits : i <= j

\* a routing with no fallback for locations that have no bucket
declaredLocation(parameters, paramName) ==
    LET i == ParamDefIndex(parameters, paramName)
    IN  IF i = 0 THEN "query" ELSE parameters[i].in

\* the bucket a provided key is routed to
BucketOf(parameters, paramName) ==
    LET i == ParamDefIndex(parameters, paramName)
    IN  IF i = 0 THEN "query"
        ELSE IF parameters[i].in \in {"path", "query", "header"}
        THEN parameters[i].in
        ELSE "query"

\* the entries of a bag that go to one bucket
Restrict(bag, keys) == [n \in Keys |-> IF n \in keys THEN bag[n] ELSE Undefined]

\* locator: [isString, operationId, method, path]
categorizeParameters(openApiSpec, locator, providedParams) ==
    LET operation ==
            IF locator.isString
            THEN categorizerFindOperation(openApiSpec, locator.operationId)
            ELSE categorizerFindOperationByPathAndMethod(
                     openApiSpec, locator.method, locator.path)
    IN  IF operation = Null
        THEN [pathParams |-> EmptyBag, queryParams |-> providedParams,
              headers |-> EmptyBag]
        ELSE LET in(loc) == {n \in Keys :
                                /\ providedParams[n].defined
                                /\ BucketOf(operation.parameters, n) = loc}
             IN  [pathParams |-> Restrict(providedParams, in("path")),
                  queryParams |-> Restrict(providedParams, in("query")),
                  headers |-> Restrict(providedParams, in("header"))]

-----------------------------------------------------------------------------
(* APIExecutor: parameters and path *)

\* a lookup that ignores the parameter's location
queryBucketOnly(param, pathParams, queryParams, headers) ==
    Get(queryParams, param.name)

getParameterValue(param, pathParams, queryParams, headers) ==
    CASE param.in = "path" -> Get(pathParams, param.name)
      [] param.in = "query" -> Get(queryParams, param.name)
      [] param.in = "header" -> Get(headers, param.name)
      [] OTHER -> Undefined

\* resolvedPathParams[key] = value on an insertion-ordered object
SetEntry(entries, key, value) ==
    IF \E i \in DOMAIN entries : entries[i].key = key
    THEN [i \in DOMAIN entries |->
             IF entries[i].key = key THEN [key |-> key, value |-> value]
             ELSE entries[i]]
    ELSE Append(entries, [key |-> key, value |-> value])

MandatoryHeaders == {<<"A","c","c","e","p","t">>,
                     <<"C","o","n","t","e","n","t","-","T","y","p","e">>}

\* Object.assign(base, over)
Merge(base, over) ==
    [n \in Keys |-> IF over[n].defined THEN over[n] ELSE base[n]]

\* obj[key] = value
Put(bag, key, value) ==
    [n \in Keys |-> IF n = key THEN value ELSE bag[n]]

\* the loop of resolveParameters from parameter i on; acc holds the resolved
\* path entries, query bag and header bag
RECURSIVE ResolveFrom(_, _, _, _, _, _)
ResolveFrom(specParameters, i, pathParams, queryParams, headers, acc) ==
    IF i > Len(specParameters)
    THEN [threw |-> FALSE,
          pathParams |-> acc.pathParams,
          queryParams |-> Merge(acc.queryParams, queryParams),
          headers |-> acc.headers]
    ELSE LET param == specParameters[i]
             value == getParameterValue(param, pathParams, queryParams, headers)
         IN  IF value.defined
             THEN LET next ==
                        CASE param.in = "path" ->
                               [acc EXCEPT !.pathParams = SetEntry(@, param.name, value.s)]
                          [] param.in = "query" ->
                               [acc EXCEPT !.queryParams = Put(@, param.name, value)]
                          [] param.in = "header" ->
                               [acc EXCEPT !.headers = Put(@, param.name, value)]
                  IN  ResolveFrom(specParameters, i + 1, pathParams, queryParams,
                                  headers, next)
             ELSE IF param.required
                     /\ ~(param.in = "header" /\ param.name \in MandatoryHeaders)
             THEN [threw |-> TRUE,
                   error |-> NewError(Message("RequiredParameterMissing",
                                              param.name, param.in))]
             ELSE ResolveFrom(specParameters, i + 1, pathParams, queryParams,
                              headers, acc)

resolveParameters(specParameters, pathParams, queryParams, headers) ==
    ResolveFrom(specParameters, 1, pathParams, queryParams, headers,
                [pathParams |-> <<>>, queryParams |-> EmptyBag, headers |-> headers])

\* the substitution loop of buildPath over Object.entries(pathParams)
RECURSIVE Substitute(_, _)
Substitute(path, entries) ==
    IF entries = <<>> THEN path
    ELSE LET placeholder == <<"{">> \o Head(entries).key \o <<"}">>
         IN  Substitute(
                 IF Includes(path, placeholder)
                 THEN ReplaceFirst(path, placeholder,
                                   encodeURIComponent(Head(entries).value))
                 ELSE path,
                 Tail(entries))

buildPath(path, pathParams) ==
    LET finalPath == Substitute(path, pathParams)
    IN  IF HasPlaceholder(finalPath)
        THEN [threw |-> TRUE,
              error |-> NewError(Message("UnresolvedPathParameters", <<>>, ""))]
        ELSE [threw |-> FALSE, path |-> finalPath]

-----------------------------------------------------------------------------
(* VTEXAPIClient.executeRequest and APIExecutor.executeOperation *)

\* the outcome the upstream API gives a dispatched request: its HTTP status
IsSuccess(status) == status >= 200 /\ status < 300

\* the HTTP client either returns the response or throws an error that
\* carries response.status; call is what a spy transport records
executeRequest(config, upstream) ==
    LET call == [method |-> config.method, path |-> config.path,
                 headers |-> config.headers, query |-> config.query,
                 status |-> upstream.status]
    IN  IF config.method \notin {toUpperVerb(Methods[i]) : i \in DOMAIN Methods}
        THEN [threw |-> TRUE, dispatched |-> <<>>,
              error |-> NewError(Message("UnsupportedHttpMethod", <<>>, ""))]
        ELSE IF IsSuccess(upstream.status)
        THEN [threw |-> FALSE, dispatched |-> <<call>>,
              response |-> upstream.response]
        ELSE [threw |-> TRUE, dispatched |-> <<call>>,
              error |-> Thrown(Message("RequestFailed", <<>>, ""), NoMessage,
                               upstream.status)]

\* what the HTTP client resolves with: an object with a data member
\* ("wrapped"), an object whose data is falsy ("noData"), the body itself
\* ("bare"), the empty string, null, or undefined
ResponseShapes == {"wrapped", "noData", "bare", "empty", "null", "undefined"}

\* response.data || response
ResponseData(response) ==
    CASE response = "wrapped" -> "payload"
      [] response = "noData" -> "response"
      [] OTHER -> response

\* the catch block of executeOperation: only the message survives
WrapExecutionError(error, dispatched) ==
    [threw |-> TRUE, dispatched |-> dispatched,
     error |-> Thrown(NoMessage, error.message, 0)]

\* the end of executeOperation: r is what executeRequest left
ExecutionResult(method, path, r) ==
    IF r.threw
    THEN WrapExecutionError(r.error, r.dispatched)
    ELSE IF r.response \in {"null", "undefined"}
    THEN WrapExecutionError(NewError(Message("TypeError", <<>>, "")), r.dispatched)
    ELSE [threw |-> FALSE,
          dispatched |-> r.dispatched,
          value |-> [data |-> ResponseData(r.response),
                     method |-> method,
                     path |-> path]]

\* executeOperation from buildPath on
ExecuteBuilt(method, resolvedParams, finalPath, upstream) ==
    IF finalPath.threw
    THEN WrapExecutionError(finalPath.error, <<>>)
    ELSE ExecutionResult(method, finalPath.path,
                         executeRequest([method |-> method,
                                         path |-> finalPath.path,
                                         headers |-> resolvedParams.headers,
                                         query |-> resolvedParams.queryParams],
                                        upstream))

\* executeOperation from resolveParameters on: mp is the resolved method and
\* path
ExecuteResolved(mp, resolvedParams, upstream) ==
    IF resolvedParams.threw
    THEN WrapExecutionError(resolvedParams.error, <<>>)
    ELSE ExecuteBuilt(mp.method, resolvedParams,
                      buildPath(mp.path, resolvedParams.pathParams), upstream)

\* options: [apiGroup, operationId, method, path, pathParams, queryParams, headers]
executeOperation(spec, options, upstream) ==
    LET byId == options.operationId # <<>>
        byPath == ~byId /\ options.method # "" /\ options.path # <<>>
        mp == IF byId THEN getMethodAndPath(spec, options.operationId)
              ELSE findOperationByPathAndMethod(spec, options.method, options.path)
        operation == IF byId THEN findOperation(spec, options.operationId)
                     ELSE mp.operation
    IN  IF ~byId /\ ~byPath
        THEN WrapExecutionError(
                 NewError(Message("NeedOperationIdOrMethodAndPath", <<>>, "")), <<>>)
        ELSE IF byId /\ operation = Null
        THEN WrapExecutionError(
                 NewError(Message("OperationNotFound", options.operationId, "")), <<>>)
        ELSE IF ~mp.found
        THEN WrapExecutionError(
                 NewError(Message(IF byId THEN "OperationNotFound" ELSE mp.error,
                                  <<>>, "")), <<>>)
        ELSE ExecuteResolved(
                 mp,
                 resolveParameters(operation.parameters, options.pathParams,
                                   options.queryParams, options.headers),
                 upstream)

-----------------------------------------------------------------------------
(* errorMapper *)

\* a probe of error.status alone
statusMemberOnly(error) == IF error.status # 0 THEN error.status ELSE 500

extractStatusCode(error) ==
    IF error.status # 0 THEN error.status
    ELSE IF error.statusCode # 0 THEN error.statusCode
    ELSE IF error.responseStatus # 0 THEN error.responseStatus
    ELSE IF error.responseStatusCode # 0 THEN error.responseStatusCode
    ELSE IF error.metadataStatusCode # 0 THEN error.metadataStatusCode
    ELSE 500

mapStatusCodeToMCP(statusCode) ==
    CASE statusCode = 400 -> -32602
      [] statusCode = 401 -> -32600
      [] statusCode = 403 -> -32600
      [] statusCode = 404 -> -32602
      [] statusCode = 405 -> -32601
      [] statusCode = 422 -> -32602
      [] statusCode = 429 -> -32603
      [] statusCode \in {500, 502, 503, 504} -> -32603
      [] OTHER -> -32603

extractErrorMessage(error) ==
    IF error.message # NoMessage THEN error.message
    ELSE IF error.error # NoMessage THEN error.error
    ELSE Message("default", <<>>, "")

mapHttpErrorToMCP(error) ==
    [code |-> mapStatusCodeToMCP(extractStatusCode(error)),
     message |-> extractErrorMessage(error),
     httpStatusCode |-> extractStatusCode(error)]

-----------------------------------------------------------------------------
(* JSON values of the envelope's id member, and response bodies *)

Absent == [kind |-> "absent"]

JNull == [kind |-> "null"]

Num(n) == [kind |-> "number", n |-> n]

Str(t) == [kind |-> "string", s |-> t]

Truthy(v) ==
    CASE v.kind = "number" -> v.n # 0
      [] v.kind = "string" -> v.s # <<>>
      [] OTHER -> FALSE

\* requestBody?.id || null
OrNull(v) == IF Truthy(v) THEN v ELSE JNull

\* requestBody?.id ?? null
Coalesce(v) == IF v \in {Absent, JNull} THEN JNull ELSE v

NoBody == [kind |-> "none"]

\* {jsonrpc: '2.0', id, error: {code, message, data}}; httpStatusCode is
\* data.httpStatusCode, 0 when the error carries no data
ErrorBody(i, c, h) == [kind |-> "error", id |-> i, code |-> c, httpStatusCode |-> h]

\* {jsonrpc: '2.0', id, result}
ResultBody(i, r) == [kind |-> "result", id |-> i, result |-> r]

NoCalls == [lookups |-> 0, fetches |-> 0, dispatched |-> <<>>]

\* what a handler leaves behind: ctx.status, ctx.body and the calls it made
\* to the spec store (lookups), the spec fetcher (fetches) and the HTTP client
Reply(st, b, c) == [status |-> st, body |-> b, calls |-> c]

-----------------------------------------------------------------------------
(* mcpUtils *)

BareMethods == {"handshake", "initialize", "notifications/initialized",
                "tools/list", "tools/call", "resources/list", "resources/read"}

Prefixed(m) ==
    CASE m = "handshake" -> "mcp/handshake"
      [] m = "initialize" -> "mcp/initialize"
      [] m = "notifications/initialized" -> "mcp/notifications/initialized"
      [] m = "tools/list" -> "mcp/tools/list"
      [] m = "tools/call" -> "mcp/tools/call"
      [] m = "resources/list" -> "mcp/resources/list"
      [] m = "resources/read" -> "mcp/resources/read"

\* a method table that knows the bare names only
bareNameOnly(endpoint) ==
    IF endpoint \in BareMethods THEN {endpoint} ELSE {}

getValidMethodsForEndpoint(endpoint) ==
    IF endpoint \in BareMethods THEN {endpoint, Prefixed(endpoint)} ELSE {}

-----------------------------------------------------------------------------
(* MasterData: the spec rows, and the service's reads of them *)

OMS == <<"O","M","S">>

OLD == <<"O","L","D">>

\* an enabled group whose specUrl answers no request
BAD == <<"B","A","D">>

\* the documents of the spec entity; a group has one document per uploaded
\* version
SpecStore ==
    <<[apiGroup |-> OMS, version |-> 1, enabled |-> TRUE, specUrl |-> "live"],
      [apiGroup |-> OLD, version |-> 1, enabled |-> FALSE, specUrl |-> "live"],
      [apiGroup |-> BAD, version |-> 1, enabled |-> TRUE, specUrl |-> "dead"],
      [apiGroup |-> OMS, version |-> 2, enabled |-> TRUE, specUrl |-> "live"]>>

\* a search by group alone, without `enabled=true`
anyRowOfGroup(group) ==
    LET hits == {i \in DOMAIN SpecStore : SpecStore[i].apiGroup = group}
    IN  IF hits = {} THEN Null
        ELSE SpecStore[CHOOSE i \in hits : \A j \in hits : i <= j]

\* searchDocuments with where `apiGroup=${group} AND enabled=true`, page size
\* 1; the service is built per request, so its cache starts empty
getAPISpecByGroup(group) ==
    LET hits == {i \in DOMAIN SpecStore :
                    SpecStore[i].apiGroup = group /\ SpecStore[i].enabled}
    IN  IF hits = {} THEN Null
        ELSE SpecStore[CHOOSE i \in hits : \A j \in hits : i <= j]

\* searchDocuments with where `enabled=true`
getAPISpecs == SelectSeq(SpecStore, LAMBDA row : row.enabled)

\* fetchSpecFromUrl throws: the URL is dead, or the network is down
FetchThrows(specUrl, env) == env.fetchFails \/ specUrl = "dead"

StoreError == NewError(Message("FailedToRetrieveSpecification", <<>>, ""))

FetchError == NewError(Message("FailedToFetchSpecification", <<>>, ""))

-----------------------------------------------------------------------------
(* tools/call *)

VtexApiCall == <<"v","t","e","x","_","a","p","i","_","c","a","l","l">>

VtexApiSpecification ==
    <<"v","t","e","x","_","a","p","i","_","s","p","e","c","i","f","i","c",
      "a","t","i","o","n">>

\* the catch block of tools/call: the thrown value goes through the mapper
ToolsCallCatch(requestBody, error, c) ==
    LET mcpError == mapHttpErrorToMCP(error)
    IN  Reply(IF mcpError.httpStatusCode # 0 THEN mcpError.httpStatusCode ELSE 500,
              ErrorBody(requestBody.id, mcpError.code, mcpError.httpStatusCode),
              c)

\* vtex_api_specification: the path whose item is returned, <<>> when none.
\* The id is compared as written, and a supplied path wins over the id.
SpecificationPath(spec, a) ==
    IF a.path # <<>> THEN a.path
    ELSE IF a.operationId = <<>> THEN <<>>
    ELSE LET hits == {i \in DOMAIN spec.paths :
                         \E m \in DOMAIN spec.paths[i].item :
                             spec.paths[i].item[m].operationId = a.operationId}
         IN  IF hits = {} THEN <<>>
             ELSE spec.paths[CHOOSE i \in hits : \A j \in hits : i <= j].path

\* the part of mcpToolsCall after the spec row was found: fetch, then
\* categorize and execute, or look the path up
ToolsCallRun(requestBody, env) ==
    LET a == requestBody.params.arguments
        fetched == [lookups |-> 1, fetches |-> 1, dispatched |-> <<>>]
    IN  IF env.fetchFails
        THEN ToolsCallCatch(requestBody, FetchError, fetched)
        ELSE IF requestBody.params.name = VtexApiCall
        THEN LET categorizedParams ==
                     categorizeParameters(
                         OpenApiSpec,
                         [isString |-> a.operationId # <<>>,
                          operationId |-> a.operationId,
                          method |-> a.method, path |-> a.path],
                         a.parameters)
                 result ==
                     executeOperation(
                         OpenApiSpec,
                         [apiGroup |-> a.apiGroup, operationId |-> a.operationId,
                          method |-> a.method, path |-> a.path,
                          pathParams |-> categorizedParams.pathParams,
                          queryParams |-> categorizedParams.queryParams,
                          headers |-> categorizedParams.headers],
                         env.upstream)
                 made == [fetched EXCEPT !.dispatched = result.dispatched]
             IN  IF result.threw
                 THEN ToolsCallCatch(requestBody, result.error, made)
                 ELSE Reply(200, ResultBody(requestBody.id, result.value), made)
        ELSE LET resolvedPath == SpecificationPath(OpenApiSpec, a)
             IN  IF resolvedPath = <<>> \/ PathIndex(OpenApiSpec, resolvedPath) = 0
                 THEN Reply(404, ErrorBody(requestBody.id, -32602, 0), fetched)
                 ELSE Reply(200,
                            ResultBody(requestBody.id,
                                       [data |-> "pathSpec", method |-> "",
                                        path |-> resolvedPath]),
                            fetched)

\* the middleware of POST .../mcp/tools/call
mcpToolsCall(st, requestBody, env) ==
    IF requestBody.jsonrpc # "2.0" \/ requestBody.id \in {Absent, JNull}
    THEN Reply(400, ErrorBody(OrNull(requestBody.id), -32600, 0), NoCalls)
    ELSE IF requestBody.method \notin getValidMethodsForEndpoint("tools/call")
    THEN Reply(400, ErrorBody(requestBody.id, -32601, 0), NoCalls)
    ELSE IF \/ ~requestBody.params.present
            \/ requestBody.params.name = <<>>
            \/ ~requestBody.params.hasArguments
    THEN Reply(400, ErrorBody(requestBody.id, -32602, 0), NoCalls)
    ELSE LET a == requestBody.params.arguments
         IN  IF requestBody.params.name \notin {VtexApiCall, VtexApiSpecification}
             THEN Reply(400, ErrorBody(requestBody.id, -32601, 0), NoCalls)
             ELSE IF a.operationId = <<>> /\ ~(a.method # "" /\ a.path # <<>>)
             THEN Reply(400, ErrorBody(requestBody.id, -32602, 0), NoCalls)
             ELSE IF env.lookupFails
             THEN ToolsCallCatch(requestBody, StoreError,
                                 [NoCalls EXCEPT !.lookups = 1])
             ELSE IF getAPISpecByGroup(a.apiGroup) = Null
             THEN Reply(404, ErrorBody(requestBody.id, -32602, 0),
                        [NoCalls EXCEPT !.lookups = 1])
             ELSE ToolsCallRun(requestBody, env)

-----------------------------------------------------------------------------
(* resources/read and resources/list *)

ApiSpecPrefix == <<"v","t","e","x",":","/","/","a","p","i","-","s","p","e","c","/">>

ApiPathPrefix == <<"v","t","e","x",":","/","/","a","p","i","-","p","a","t","h","/">>

\* String.prototype.startsWith
StartsWith(s, prefix) ==
    Len(s) >= Len(prefix) /\ SubSeq(s, 1, Len(prefix)) = prefix

\* uri.replace(prefix, '') for a uri that starts with the prefix
AfterPrefix(s, prefix) == SubSeq(s, Len(prefix) + 1, Len(s))

\* const [apiGroup, ...pathParts] = pathPart.split('/')
GroupOfPathPart(pathPart) ==
    IF Includes(pathPart, <<"/">>)
    THEN SubSeq(pathPart, 1, IndexOf(pathPart, <<"/">>) - 1)
    ELSE pathPart

\* `/${pathParts.join('/')}`
PathOfPathPart(pathPart) ==
    IF Includes(pathPart, <<"/">>)
    THEN SubSeq(pathPart, IndexOf(pathPart, <<"/">>), Len(pathPart))
    ELSE <<"/">>

\* JSON.stringify(value, null, 2): the text stands for the value it was
\* made of, so two texts are equal exactly when the values are
JSONStringify(value) == [json |-> value]

\* the contents array of a successful read: one item
Contents(uri, content) ==
    [type |-> "contents",
     contents |-> <<[uri |-> uri, mimeType |-> "application/json",
                     text |-> content]>>]

\* the verbs in the order the endpoints list walks them
EndpointVerbs == <<"get", "post", "put", "patch", "delete", "options", "head">>

RECURSIVE EndpointsOfPath(_, _, _)
EndpointsOfPath(group, pathEntry, k) ==
    IF k > Len(EndpointVerbs) THEN <<>>
    ELSE (IF EndpointVerbs[k] \in DOMAIN pathEntry.item
          THEN <<[uri |-> ApiPathPrefix \o group \o pathEntry.path]>>
          ELSE <<>>)
             \o EndpointsOfPath(group, pathEntry, k + 1)

\* one item per method per path
RECURSIVE Endpoints(_, _, _)
Endpoints(group, spec, i) ==
    IF i > Len(spec.paths) THEN <<>>
    ELSE EndpointsOfPath(group, spec.paths[i], 1) \o Endpoints(group, spec, i + 1)

\* the body of resources/read once the envelope, method and uri are accepted;
\* specContent is what an api-spec uri is answered with
ResourcesReadRunWith(requestBody, env, catchId, specContent) ==
    LET uri == requestBody.params.uri
        isSpec == StartsWith(uri, ApiSpecPrefix)
        isPath == ~isSpec /\ StartsWith(uri, ApiPathPrefix)
        pathPart == AfterPrefix(uri, ApiPathPrefix)
        apiGroup == IF isSpec THEN AfterPrefix(uri, ApiSpecPrefix)
                    ELSE GroupOfPathPart(pathPart)
        looked == [NoCalls EXCEPT !.lookups = 1]
        fetched == [looked EXCEPT !.fetches = 1]
    IN  IF ~isSpec /\ ~isPath
        THEN Reply(400, ErrorBody(requestBody.id, -32602, 0), NoCalls)
        ELSE IF env.lookupFails
        THEN Reply(500, ErrorBody(catchId, -32603, 0), looked)
        ELSE IF getAPISpecByGroup(apiGroup) = Null
        THEN Reply(404, ErrorBody(requestBody.id, -32602, 0), looked)
        ELSE IF FetchThrows(getAPISpecByGroup(apiGroup).specUrl, env)
        THEN Reply(500, ErrorBody(catchId, -32603, 0), fetched)
        ELSE IF isPath /\ PathIndex(OpenApiSpec, PathOfPathPart(pathPart)) = 0
        THEN Reply(404, ErrorBody(requestBody.id, -32602, 0), fetched)
        ELSE Reply(200,
                   ResultBody(requestBody.id,
                       Contents(uri,
                           IF isSpec THEN JSONStringify(specContent)
                           ELSE JSONStringify(
                                    [group |-> apiGroup,
                                     path |-> PathOfPathPart(pathPart),
                                     pathSpec |->
                                         OpenApiSpec.paths[
                                             PathIndex(OpenApiSpec,
                                                       PathOfPathPart(pathPart))].item]))),
                   fetched)

\* the copies that answer an api-spec uri with the document as fetched
ResourcesReadRun(requestBody, env, catchId) ==
    ResourcesReadRunWith(requestBody, env, catchId, OpenApiSpec)

\* the middleware of POST .../mcp/resources/read
mcpResourcesRead(st, requestBody, env) ==
    IF requestBody.jsonrpc # "2.0" \/ ~Truthy(requestBody.id)
    THEN Reply(400, ErrorBody(OrNull(requestBody.id), -32600, 0), NoCalls)
    ELSE IF requestBody.method # "resources/read"
    THEN Reply(400, ErrorBody(requestBody.id, -32601, 0), NoCalls)
    ELSE IF ~requestBody.params.present \/ requestBody.params.uri = <<>>
    THEN Reply(400, ErrorBody(requestBody.id, -32602, 0), NoCalls)
    ELSE ResourcesReadRun(requestBody, env, OrNull(requestBody.id))

\* the later copy of the middleware: the id may be 0, the prefixed method
\* name is served too, and an api-spec uri is answered with the list of the
\* group's endpoints
mcpResourcesReadRevised(st, requestBody, env) ==
    IF requestBody.jsonrpc # "2.0" \/ requestBody.id \in {Absent, JNull}
    THEN Reply(400, ErrorBody(OrNull(requestBody.id), -32600, 0), NoCalls)
    ELSE IF requestBody.method \notin getValidMethodsForEndpoint("resources/read")
    THEN Reply(400, ErrorBody(requestBody.id, -32601, 0), NoCalls)
    ELSE IF ~requestBody.params.present \/ requestBody.params.uri = <<>>
    THEN Reply(400, ErrorBody(requestBody.id, -32602, 0), NoCalls)
    ELSE ResourcesReadRunWith(
             requestBody, env, OrNull(requestBody.id),
             [group |-> AfterPrefix(requestBody.params.uri, ApiSpecPrefix),
              resources |-> Endpoints(AfterPrefix(requestBody.params.uri,
                                                  ApiSpecPrefix),
                                      OpenApiSpec, 1)])

\* the api-path uris of the rows: a row whose fetch throws gives none
RECURSIVE PathResources(_, _)
PathResources(specsMetadata, env) ==
    IF specsMetadata = <<>> THEN <<>>
    ELSE (IF FetchThrows(Head(specsMetadata).specUrl, env) THEN <<>>
          ELSE [i \in DOMAIN OpenApiSpec.paths |->
                   ApiPathPrefix \o Head(specsMetadata).apiGroup
                       \o OpenApiSpec.paths[i].path])
             \o PathResources(Tail(specsMetadata), env)

\* one api-path resource per path of every enabled row whose document can
\* be fetched
ResourcesListRun(requestBody, env, catchId) ==
    LET specsMetadata == getAPISpecs
        made == [lookups |-> 1, fetches |-> Len(specsMetadata), dispatched |-> <<>>]
    IN  IF env.lookupFails
        THEN Reply(500, ErrorBody(catchId, -32603, 0),
                   [NoCalls EXCEPT !.lookups = 1])
        ELSE Reply(200,
                   ResultBody(requestBody.id,
                              [type |-> "resources",
                               uris |-> PathResources(specsMetadata, env)]),
                   made)

\* the middleware of POST .../mcp/resources/list
mcpResourcesList(st, requestBody, env) ==
    IF requestBody.jsonrpc # "2.0" \/ ~Truthy(requestBody.id)
    THEN Reply(400, ErrorBody(OrNull(requestBody.id), -32600, 0), NoCalls)
    ELSE IF requestBody.method # "resources/list"
    THEN Reply(400, ErrorBody(requestBody.id, -32601, 0), NoCalls)
    ELSE ResourcesListRun(requestBody, env, OrNull(requestBody.id))

\* the later copy of the middleware: the id may be 0, the prefixed method
\* name is served too, and the resources are one api-spec uri per row of
\* getAPISpecs, with no fetch
mcpResourcesListRevised(st, requestBody, env) ==
    IF requestBody.jsonrpc # "2.0" \/ requestBody.id \in {Absent, JNull}
    THEN Reply(400, ErrorBody(OrNull(requestBody.id), -32600, 0), NoCalls)
    ELSE IF requestBody.method \notin getValidMethodsForEndpoint("resources/list")
    THEN Reply(400, ErrorBody(requestBody.id, -32601, 0), NoCalls)
    ELSE IF env.lookupFails
    THEN Reply(500, ErrorBody(OrNull(requestBody.id), -32603, 0),
               [NoCalls EXCEPT !.lookups = 1])
    ELSE Reply(200,
               ResultBody(requestBody.id,
                          [type |-> "resources",
                           uris |-> [i \in DOMAIN getAPISpecs |->
                                        ApiSpecPrefix \o getAPISpecs[i].apiGroup]]),
               [NoCalls EXCEPT !.lookups = 1])

-----------------------------------------------------------------------------
(* handshake, initialize, notifications/initialized *)

\* the -32000 reply of the configuration gate
ConfigGate(st, requestBody) ==
    Reply(403, ErrorBody(OrNull(requestBody.id), -32000, 0), NoCalls)

ConfigEnabled(st) == st.mcpConfig # Null /\ st.mcpConfig.enabled

HandshakeVersions == {"1.0.0", "2024-11-05"}

InitializeVersions == {"2024-11-05", "2025-03-26", "2025-06-18"}

HandshakeRun(requestBody) ==
    LET clientVersion == IF requestBody.params.present
                            /\ requestBody.params.version # ""
                         THEN requestBody.params.version
                         ELSE "unknown"
    IN  Reply(200,
              ResultBody(requestBody.id,
                         [type |-> "handshake", version |-> "1.0.0",
                          compatible |-> clientVersion \in HandshakeVersions]),
              NoCalls)

\* the middleware of POST .../mcp/handshake
mcpHandshake(st, requestBody, env) ==
    IF ~ConfigEnabled(st) THEN ConfigGate(st, requestBody)
    ELSE IF requestBody.jsonrpc # "2.0" \/ requestBody.id \in {Absent, JNull}
    THEN Reply(400, ErrorBody(OrNull(requestBody.id), -32600, 0), NoCalls)
    ELSE IF requestBody.method \notin getValidMethodsForEndpoint("handshake")
    THEN Reply(400, ErrorBody(requestBody.id, -32601, 0), NoCalls)
    ELSE HandshakeRun(requestBody)

InitializeRun(requestBody) ==
    LET params == requestBody.params
    IN  IF \/ ~params.present
           \/ params.protocolVersion = ""
           \/ ~params.hasCapabilities
           \/ ~params.hasClientInfo
        THEN Reply(400, ErrorBody(requestBody.id, -32602, 0), NoCalls)
        ELSE IF params.protocolVersion \notin InitializeVersions
        THEN Reply(400, ErrorBody(requestBody.id, -32602, 0), NoCalls)
        ELSE Reply(200,
                   ResultBody(requestBody.id,
                              [type |-> "initialize",
                               protocolVersion |-> params.protocolVersion]),
                   NoCalls)

\* the middleware of POST .../mcp/initialize
mcpInitialize(st, requestBody, env) ==
    IF requestBody.jsonrpc # "2.0" \/ requestBody.id \in {Absent, JNull}
    THEN Reply(400, ErrorBody(OrNull(requestBody.id), -32600, 0), NoCalls)
    ELSE IF requestBody.method \notin getValidMethodsForEndpoint("initialize")
    THEN Reply(400, ErrorBody(requestBody.id, -32601, 0), NoCalls)
    ELSE InitializeRun(requestBody)

\* the middleware of POST .../mcp/notifications/initialized
mcpInitialized(st, requestBody, env) ==
    IF ~ConfigEnabled(st) THEN ConfigGate(st, requestBody)
    ELSE IF requestBody.jsonrpc # "2.0"
    THEN Reply(400, ErrorBody(OrNull(requestBody.id), -32600, 0), NoCalls)
    ELSE IF requestBody.method
                \notin getValidMethodsForEndpoint("notifications/initialized")
    THEN Reply(400, ErrorBody(OrNull(requestBody.id), -32601, 0), NoCalls)
    ELSE Reply(200, NoBody, NoCalls)

-----------------------------------------------------------------------------
(* tools/list *)

Instance == "default"

\* an operationId no operation of the document has
GoneId == <<"G","o","n","e">>

\* the rows of the favorites schema
FavoriteStore ==
    <<[apiGroup |-> OMS, operationId |-> GetA, httpMethod |-> "", path |-> <<>>,
       enabled |-> TRUE, instance |-> ""],
      [apiGroup |-> OMS, operationId |-> <<"l",".","o">>, httpMethod |-> "GET",
       path |-> PathO, enabled |-> TRUE, instance |-> Instance],
      [apiGroup |-> OLD, operationId |-> DelA, httpMethod |-> "", path |-> <<>>,
       enabled |-> TRUE, instance |-> ""],
      [apiGroup |-> OMS, operationId |-> PutAB, httpMethod |-> "", path |-> <<>>,
       enabled |-> TRUE, instance |-> "other"],
      [apiGroup |-> OMS, operationId |-> DelA, httpMethod |-> "", path |-> <<>>,
       enabled |-> FALSE, instance |-> ""],
      [apiGroup |-> BAD, operationId |-> GetA, httpMethod |-> "", path |-> <<>>,
       enabled |-> TRUE, instance |-> ""],
      [apiGroup |-> OMS, operationId |-> GoneId, httpMethod |-> "", path |-> <<>>,
       enabled |-> TRUE, instance |-> ""],
      [apiGroup |-> OMS, operationId |-> GoneId, httpMethod |-> "POST",
       path |-> PathO, enabled |-> TRUE, instance |-> ""],
      [apiGroup |-> OMS, operationId |-> <<"p","u","t","a","b">>,
       httpMethod |-> "", path |-> <<>>, enabled |-> TRUE, instance |-> ""],
      [apiGroup |-> OMS, operationId |-> GetA, httpMethod |-> "", path |-> <<>>,
       enabled |-> TRUE, instance |-> Instance],
      [apiGroup |-> OMS, operationId |-> <<"l","/","o">>, httpMethod |-> "GET",
       path |-> PathO, enabled |-> TRUE, instance |-> ""]>>

\* the enabled favorites of the instance, and the global ones
getFavorites(instance) ==
    SelectSeq(FavoriteStore,
              LAMBDA f : f.enabled /\ f.instance \in {instance, ""})

NameChars ==
    Range(UpperChars) \cup Range(LowerChars) \cup Range(DigitChars)
        \cup {"_", ":", "-"}

\* name.replace(/[^A-Za-z0-9_:-]/g, '_')
sanitizeName(name) ==
    [i \in DOMAIN name |-> IF name[i] \in NameChars THEN name[i] ELSE "_"]

\* the operation a favorite stands for: by id without regard to case, else
\* by its own method and path
FavoriteOperation(spec, fav) ==
    LET S == IdMatches(spec, fav.operationId)
        i == PathIndex(spec, fav.path)
    IN  IF S # {}
        THEN spec.paths[FirstMatch(S)[1]].item[Methods[FirstMatch(S)[2]]]
        ELSE IF fav.httpMethod # "" /\ fav.path # <<>> /\ i # 0
                /\ toLowerVerb(fav.httpMethod) \in DOMAIN spec.paths[i].item
        THEN spec.paths[i].item[toLowerVerb(fav.httpMethod)]
        ELSE Null

\* a `required` list that trusts the document's flag alone
flaggedOnly(operation) ==
    LET ps == SelectSeq(operation.parameters,
                        LAMBDA q : q.in \in {"path", "query"} /\ q.required)
    IN  [i \in DOMAIN ps |-> ps[i].name]

\* the names pushed to `required`, in the order of the declaration
RequiredOf(operation) ==
    LET ps == SelectSeq(operation.parameters,
                        LAMBDA q : q.in \in {"path", "query"}
                                     /\ (q.required \/ q.in = "path"))
    IN  [i \in DOMAIN ps |-> ps[i].name]

ApiGroupKey == <<"a","p","i","G","r","o","u","p">>

Tool(n, r) == [name |-> n, required |-> r]

\* a loop that makes a tool of every favorite, resolved or not
neverSkipped(fav, specsMetadata, env) ==
    <<Tool(sanitizeName(fav.apiGroup \o <<"_">> \o fav.operationId), <<>>)>>

\* the tool of one favorite: <<>> when it is skipped
FavoriteTools(fav, specsMetadata, env) ==
    IF \A i \in DOMAIN specsMetadata : specsMetadata[i].apiGroup # fav.apiGroup
    THEN <<>>
    ELSE IF FetchThrows(getAPISpecByGroup(fav.apiGroup).specUrl, env) THEN <<>>
    ELSE IF FavoriteOperation(OpenApiSpec, fav) = Null THEN <<>>
    ELSE <<Tool(sanitizeName(fav.apiGroup \o <<"_">> \o fav.operationId),
                RequiredOf(FavoriteOperation(OpenApiSpec, fav)))>>

RECURSIVE FavoritesTools(_, _, _)
FavoritesTools(favorites, specsMetadata, env) ==
    IF favorites = <<>> THEN <<>>
    ELSE FavoriteTools(Head(favorites), specsMetadata, env)
             \o FavoritesTools(Tail(favorites), specsMetadata, env)

\* the tools array of a successful tools/list
ListedTools(st, env) ==
    <<Tool(VtexApiCall, <<ApiGroupKey>>),
      Tool(VtexApiSpecification, <<ApiGroupKey>>)>>
        \o FavoritesTools(getFavorites(st.instance), getAPISpecs, env)

\* the middleware of POST .../mcp/tools/list
mcpToolsList(st, requestBody, env) ==
    IF ~ConfigEnabled(st) THEN ConfigGate(st, requestBody)
    ELSE IF requestBody.jsonrpc # "2.0" \/ requestBody.id \in {Absent, JNull}
    THEN Reply(400, ErrorBody(OrNull(requestBody.id), -32600, 0), NoCalls)
    ELSE IF requestBody.method \notin getValidMethodsForEndpoint("tools/list")
    THEN Reply(400, ErrorBody(requestBody.id, -32601, 0), NoCalls)
    ELSE IF env.lookupFails
    THEN Reply(500, ErrorBody(OrNull(requestBody.id), -32603, 0),
               [NoCalls EXCEPT !.lookups = 1])
    ELSE Reply(200,
               ResultBody(requestBody.id,
                          [type |-> "tools", tools |-> ListedTools(st, env)]),
               [lookups |-> 1,
                fetches |-> Cardinality(
                    {getFavorites(st.instance)[i].apiGroup :
                        i \in DOMAIN getFavorites(st.instance)}
                    \cap {getAPISpecs[i].apiGroup : i \in DOMAIN getAPISpecs}),
                dispatched |-> <<>>])

-----------------------------------------------------------------------------
(* mcpRouter and its handlers *)

handleInitialize(requestBody) == InitializeRun(requestBody)

handleToolsList(requestBody, env) ==
    IF requestBody.method \notin getValidMethodsForEndpoint("tools/list")
    THEN Reply(400, ErrorBody(requestBody.id, -32601, 0), NoCalls)
    ELSE IF env.lookupFails
    THEN Reply(500, ErrorBody(requestBody.id, -32603, 0),
               [NoCalls EXCEPT !.lookups = 1])
    ELSE Reply(200,
               ResultBody(requestBody.id,
                          [type |-> "tools",
                           tools |-> <<Tool(VtexApiCall,
                                            <<ApiGroupKey,
                                              <<"o","p","e","r","a","t","i","o",
                                                "n","I","d">> >>)>>]),
               [NoCalls EXCEPT !.lookups = 1])

\* the catch block of the router's tools/call
HandleToolsCallCatch(requestBody, error, c) ==
    LET mcpError == mapHttpErrorToMCP(error)
    IN  Reply(IF mcpError.httpStatusCode # 0 THEN mcpError.httpStatusCode ELSE 500,
              ErrorBody(requestBody.id, mcpError.code, mcpError.httpStatusCode),
              c)

handleToolsCall(requestBody, env) ==
    LET a == requestBody.params.arguments
        looked == [NoCalls EXCEPT !.lookups = 1]
        fetched == [looked EXCEPT !.fetches = 1]
        categorizedParams ==
            categorizeParameters(
                OpenApiSpec,
                [isString |-> TRUE, operationId |-> a.operationId,
                 method |-> "", path |-> <<>>],
                a.parameters)
        result ==
            executeOperation(
                OpenApiSpec,
                [apiGroup |-> a.apiGroup, operationId |-> a.operationId,
                 method |-> "", path |-> <<>>,
                 pathParams |-> categorizedParams.pathParams,
                 queryParams |-> categorizedParams.queryParams,
                 headers |-> categorizedParams.headers],
                env.upstream)
    IN  IF requestBody.method \notin getValidMethodsForEndpoint("tools/call")
        THEN Reply(400, ErrorBody(requestBody.id, -32601, 0), NoCalls)
        ELSE IF \/ ~requestBody.params.present
                \/ requestBody.params.name = <<>>
                \/ ~requestBody.params.hasArguments
        THEN Reply(400, ErrorBody(requestBody.id, -32602, 0), NoCalls)
        ELSE IF requestBody.params.name # VtexApiCall
        THEN Reply(400, ErrorBody(requestBody.id, -32601, 0), NoCalls)
        ELSE IF env.lookupFails
        THEN HandleToolsCallCatch(requestBody, StoreError, looked)
        ELSE IF getAPISpecByGroup(a.apiGroup) = Null
        THEN Reply(404, ErrorBody(requestBody.id, -32602, 0), looked)
        ELSE IF env.fetchFails
        THEN HandleToolsCallCatch(requestBody, FetchError, fetched)
        ELSE IF a.operationId = <<>>
        THEN \* the categorizer destructures an undefined locator: a TypeError
             HandleToolsCallCatch(
                 requestBody, NewError(Message("TypeError", <<>>, "")), fetched)
        ELSE IF result.threw
        THEN HandleToolsCallCatch(requestBody, result.error,
                                  [fetched EXCEPT !.dispatched = result.dispatched])
        ELSE Reply(200, ResultBody(requestBody.id, result.value),
                   [fetched EXCEPT !.dispatched = result.dispatched])

handleResourcesList(requestBody, env) ==
    IF requestBody.method \notin getValidMethodsForEndpoint("resources/list")
    THEN Reply(400, ErrorBody(requestBody.id, -32601, 0), NoCalls)
    ELSE ResourcesListRun(requestBody, env, requestBody.id)

handleResourcesRead(requestBody, env) ==
    IF requestBody.method \notin getValidMethodsForEndpoint("resources/read")
    THEN Reply(400, ErrorBody(requestBody.id, -32601, 0), NoCalls)
    ELSE IF ~requestBody.params.present \/ requestBody.params.uri = <<>>
    THEN Reply(400, ErrorBody(requestBody.id, -32602, 0), NoCalls)
    ELSE ResourcesReadRun(requestBody, env, requestBody.id)

handleInitialized(requestBody) == Reply(200, NoBody, NoCalls)

handleHandshake(requestBody) ==
    IF requestBody.method \notin getValidMethodsForEndpoint("handshake")
    THEN Reply(400, ErrorBody(requestBody.id, -32601, 0), NoCalls)
    ELSE HandshakeRun(requestBody)

\* the handler the router's switch selects for a method: "" in the default case
handlerOf(method) ==
    CASE method \in {"initialize", "mcp/initialize"} -> "handleInitialize"
      [] method \in {"tools/list", "mcp/tools/list"} -> "handleToolsList"
      [] method \in {"tools/call", "mcp/tools/call"} -> "handleToolsCall"
      [] method \in {"resources/list", "mcp/resources/list"} -> "handleResourcesList"
      [] method \in {"resources/read", "mcp/resources/read"} -> "handleResourcesRead"
      [] method \in {"notifications/initialized",
                     "mcp/notifications/initialized"} -> "handleInitialized"
      [] method \in {"handshake", "mcp/handshake"} -> "handleHandshake"
      [] OTHER -> ""

\* a reply, with the handler that was entered to produce it
Routed(h, r) ==
    [status |-> r.status, body |-> r.body, calls |-> r.calls, handler |-> h]

\* the handler of POST .../mcp
mcpRouter(st, requestBody, env) ==
    LET h == handlerOf(requestBody.method)
    IN  IF requestBody.jsonrpc # "2.0"
        THEN Routed("", Reply(400, ErrorBody(Coalesce(requestBody.id), -32600, 0),
                              NoCalls))
        ELSE IF requestBody.id = JNull
        THEN Routed("", Reply(400, ErrorBody(JNull, -32600, 0), NoCalls))
        ELSE Routed(h,
               CASE h = "handleInitialize" -> handleInitialize(requestBody)
                 [] h = "handleToolsList" -> handleToolsList(requestBody, env)
                 [] h = "handleToolsCall" -> handleToolsCall(requestBody, env)
                 [] h = "handleResourcesList" -> handleResourcesList(requestBody, env)
                 [] h = "handleResourcesRead" -> handleResourcesRead(requestBody, env)
                 [] h = "handleInitialized" -> handleInitialized(requestBody)
                 [] h = "handleHandshake" -> handleHandshake(requestBody)
                 [] OTHER -> Reply(400, ErrorBody(requestBody.id, -32601, 0),
                                   NoCalls))

-----------------------------------------------------------------------------
(* execute-api: the REST entry to APIExecutor.executeOperation *)

RestError(st, msg, c) ==
    Reply(st, [kind |-> "rest", success |-> FALSE, error |-> msg], c)

\* request: [apiGroup, operationId, pathParams, queryParams, parameters];
\* request.parameters is what the handler passes as headers
executeApi(st, req, env) ==
    LET looked == [NoCalls EXCEPT !.lookups = 1]
        fetched == [looked EXCEPT !.fetches = 1]
        result ==
            executeOperation(
                OpenApiSpec,
                [apiGroup |-> req.apiGroup, operationId |-> req.operationId,
                 method |-> "", path |-> <<>>,
                 pathParams |-> req.pathParams, queryParams |-> req.queryParams,
                 headers |-> req.parameters],
                env.upstream)
    IN  IF req.apiGroup = <<>>
        THEN RestError(400, Message("ApiGroupRequired", <<>>, ""), NoCalls)
        ELSE IF req.operationId = <<>>
        THEN RestError(400, Message("OperationIdRequired", <<>>, ""), NoCalls)
        ELSE IF env.lookupFails
        THEN RestError(500, Message("InternalServerError", <<>>, ""), looked)
        ELSE IF getAPISpecByGroup(req.apiGroup) = Null
        THEN RestError(404, Message("ApiGroupNotFound", req.apiGroup, ""), looked)
        ELSE IF env.fetchFails
        THEN RestError(500, Message("InternalServerError", <<>>, ""), fetched)
        ELSE IF result.threw
        THEN RestError(500, result.error.error,
                       [fetched EXCEPT !.dispatched = result.dispatched])
        ELSE Reply(200,
                   [kind |-> "rest", success |-> TRUE, data |-> result.value],
                   [fetched EXCEPT !.dispatched = result.dispatched])

-----------------------------------------------------------------------------
(* Requests and environments the handlers are driven with *)

\* the largest number of keys in a caller's parameter object
MaxArgs == 2

ParamNames == {<<"a">>, <<"b">>, <<"q">>}

V7 == <<"7">>

VXY == <<"x","/","y">>

VBrace == <<"{","a","}">>

\* {k: v}
Bag1(k, v) == Put(EmptyBag, k, Val(v))

\* the objects with at most MaxArgs of the names, and one whose value looks
\* like a placeholder
Bags ==
    {bag \in [Keys -> {Undefined, Val(V7), Val(VXY)}] :
        /\ Cardinality({n \in Keys : bag[n].defined}) <= MaxArgs
        /\ \A n \in Keys \ ParamNames : ~bag[n].defined}
        \cup {Bag1(<<"a">>, VBrace)}

Nope == <<"N","o","p","e">>

Loc(id, m, p) == [operationId |-> id, method |-> m, path |-> p]

DeclaredIds == {GetA, DelA, ListO, PutAB, PostU, GetD, GetH}

\* objects that name a header or a cookie parameter
HeaderBags == {Bag1(HName, V7), Bag1(AcceptName, V7), Bag1(CName, V7),
               Bag1(<<"p">>, V7), Put(Bag1(HName, V7), <<"q">>, Val(V7))}

\* other spellings of declared ids
CasedIds == {<<"g","e","t","a">>, <<"G","E","T","A">>, <<"p","U","t","A","b">>,
             GetHLower}

IdLocators == {Loc(id, "", <<>>) : id \in DeclaredIds \cup CasedIds}

OtherLocators ==
    {Loc(Nope, "", <<>>), Loc(<<>>, "GET", PathOA), Loc(<<>>, "delete", PathOA),
     Loc(<<>>, "POST", PathOA), Loc(<<>>, "GET", <<"/","x">>),
     Loc(<<>>, "", <<>>), Loc(GetA, "DELETE", PathOA), Loc(Nope, "GET", PathOA),
     Loc(ListO, "GET", PathOA)}

Args(g, l, bag) ==
    [apiGroup |-> g, operationId |-> l.operationId, method |-> l.method,
     path |-> l.path, parameters |-> bag]

\* params absent
NoParams ==
    [present |-> FALSE, name |-> <<>>, hasArguments |-> FALSE,
     arguments |-> Args(<<>>, Loc(<<>>, "", <<>>), EmptyBag), uri |-> <<>>,
     version |-> "", protocolVersion |-> "", hasCapabilities |-> FALSE,
     hasClientInfo |-> FALSE]

\* params: {}
EmptyParams == [NoParams EXCEPT !.present = TRUE]

CallParams(n, a) ==
    [EmptyParams EXCEPT !.name = n, !.hasArguments = TRUE, !.arguments = a]

ReadParams(u) == [EmptyParams EXCEPT !.uri = u]

HandshakeParams(v) == [EmptyParams EXCEPT !.version = v]

InitializeParams(v, caps, info) ==
    [EmptyParams EXCEPT !.protocolVersion = v, !.hasCapabilities = caps,
                        !.hasClientInfo = info]

\* the two listed favorites, as tools/list names them
FavoriteNames ==
    {sanitizeName(OMS \o <<"_">> \o GetA),
     sanitizeName(OMS \o <<"_">> \o <<"l",".","o">>)}

\* calls of the DELETE and of a GET operation, with their path parameter
BodylessCalls ==
    {CallParams(VtexApiCall, Args(OMS, Loc(id, "", <<>>), Bag1(<<"a">>, V7))) :
        id \in {DelA, GetA}}

ToolsCallParams ==
    {CallParams(VtexApiCall, Args(OMS, l, bag)) : l \in IdLocators, bag \in Bags}
        \cup {CallParams(VtexApiCall, Args(OMS, l, bag)) :
                 l \in OtherLocators, bag \in {EmptyBag, Bag1(<<"a">>, V7)}}
        \cup {CallParams(VtexApiCall, Args(OMS, l, bag)) :
                 l \in {Loc(GetH, "", <<>>), Loc(<<>>, "GET", PathH),
                        Loc(PostU, "", <<>>), Loc(Nope, "", <<>>)},
                 bag \in HeaderBags}
        \cup {CallParams(VtexApiSpecification, Args(OMS, l, EmptyBag)) :
                 l \in IdLocators \cup OtherLocators}
        \cup {CallParams(n, Args(<<>>, Loc(<<>>, "", <<>>), EmptyBag)) :
                 n \in FavoriteNames}
        \cup {CallParams(VtexApiCall, Args(g, Loc(GetA, "", <<>>), Bag1(<<"a">>, V7))) :
                 g \in {OLD, <<>>}}
        \cup {NoParams, EmptyParams,
              [EmptyParams EXCEPT !.name = VtexApiCall]}

ReadParamsSet ==
    {ReadParams(u) :
        u \in {ApiSpecPrefix \o OMS, ApiSpecPrefix \o OLD,
               ApiSpecPrefix \o <<"Z">>, ApiSpecPrefix \o BAD,
               ApiPathPrefix \o OMS \o PathOA, ApiPathPrefix \o OMS \o <<"/","x">>,
               ApiPathPrefix \o OMS, ApiPathPrefix \o OLD \o PathO,
               <<"h","t","t","p",":","/","/","x">>}}
        \cup {NoParams, EmptyParams}

HandshakeParamsSet ==
    {HandshakeParams(v) : v \in {"1.0.0", "2024-11-05", "2025-06-18", ""}}
        \cup {NoParams}

InitializeParamsSet ==
    {InitializeParams(v, TRUE, TRUE) :
        v \in {"2024-11-05", "2025-03-26", "2025-06-18", "1.0.0", ""}}
        \cup {InitializeParams("2024-11-05", FALSE, TRUE),
              InitializeParams("2024-11-05", TRUE, FALSE), NoParams}

Quiet ==
    [upstream |-> [status |-> 200, response |-> "wrapped"], lookupFails |-> FALSE,
     fetchFails |-> FALSE]

Env(s, lf, ff) ==
    [upstream |-> [status |-> s, response |-> "wrapped"], lookupFails |-> lf,
     fetchFails |-> ff]

\* the upstream API answers 2xx, and the client resolves with this
Responding(shape) == [Quiet EXCEPT !.upstream.response = shape]

BodylessEnvs == {Responding(shape) : shape \in ResponseShapes \ {"wrapped"}}

Envs == {Env(s, FALSE, FALSE) : s \in {200, 401, 404, 500}}
            \cup {Env(200, TRUE, FALSE), Env(200, FALSE, TRUE)}

StoreEnvs == {Quiet, Env(200, TRUE, FALSE), Env(200, FALSE, TRUE)}

Ids == {Absent, JNull, Num(0), Num(7), Str(<<"r">>)}

ProbeIds == {Num(0), Num(7)}

AllMethods == BareMethods \cup {Prefixed(m) : m \in BareMethods} \cup {"ping"}

Envelope(j, i, m, p) == [jsonrpc |-> j, id |-> i, method |-> m, params |-> p]

\* parameters that pass the validation of the method they are sent with
DefaultParams(m) ==
    CASE m \in getValidMethodsForEndpoint("tools/call") ->
             CallParams(VtexApiCall,
                        Args(OMS, Loc(GetA, "", <<>>), Bag1(<<"a">>, V7)))
      [] m \in getValidMethodsForEndpoint("resources/read") ->
             ReadParams(ApiSpecPrefix \o OMS)
      [] m \in getValidMethodsForEndpoint("initialize") ->
             InitializeParams("2025-06-18", TRUE, TRUE)
      [] m \in getValidMethodsForEndpoint("handshake") -> HandshakeParams("1.0.0")
      [] OTHER -> EmptyParams

Probe(b, e) == [body |-> b, env |-> e]

\* every envelope shape, with parameters that are themselves acceptable
EnvelopeProbes(methods) ==
    {Probe(Envelope(j, i, m, DefaultParams(m)), e) :
        j \in {"2.0", "1.0"}, i \in Ids, m \in methods,
        e \in {Quiet, Env(200, TRUE, FALSE)}}

\* every parameter shape, in an acceptable envelope
ParamProbes(methods, paramsSet, envs) ==
    {Probe(Envelope("2.0", i, m, ps), e) :
        i \in ProbeIds, m \in methods, ps \in paramsSet, e \in envs}

EndpointMethods(endpoint) == getValidMethodsForEndpoint(endpoint) \cup {"ping"}

RouterProbes ==
    EnvelopeProbes(AllMethods)
        \cup ParamProbes({"mcp/tools/call"}, ToolsCallParams, Envs)
        \cup ParamProbes(getValidMethodsForEndpoint("resources/read"),
                         ReadParamsSet, StoreEnvs)
        \cup ParamProbes(getValidMethodsForEndpoint("initialize"),
                         InitializeParamsSet, {Quiet})
        \cup ParamProbes(getValidMethodsForEndpoint("handshake"),
                         HandshakeParamsSet, {Quiet})
        \cup ParamProbes(getValidMethodsForEndpoint("tools/list")
                             \cup getValidMethodsForEndpoint("resources/list"),
                         {EmptyParams}, StoreEnvs)

ExecuteApiRequests ==
    {[apiGroup |-> OMS, operationId |-> id, pathParams |-> pp, queryParams |-> qp,
      parameters |-> EmptyBag] :
        id \in DeclaredIds \cup CasedIds \cup {Nope, <<>>},
        pp \in Bags, qp \in {EmptyBag, Bag1(<<"q">>, V7)}}
        \cup {[apiGroup |-> OMS, operationId |-> id, pathParams |-> pp,
               queryParams |-> EmptyBag, parameters |-> hs] :
                 id \in {GetH, ListO}, pp \in {EmptyBag, Bag1(HName, V7)},
                 hs \in HeaderBags}
        \cup {[apiGroup |-> g, operationId |-> GetA,
               pathParams |-> Bag1(<<"a">>, V7), queryParams |-> EmptyBag,
               parameters |-> EmptyBag] :
                 g \in {OLD, <<>>}}

\* the rows of vtex_mcp_configs an instance can have: none, disabled, enabled
McpConfigDocs ==
    {Null}
        \cup {[instance |-> Instance, enabled |-> en, disabledMethods |-> dm,
               excludeFavorites |-> FALSE] :
                 en \in BOOLEAN, dm \in {{}, {"DELETE"}}}

-----------------------------------------------------------------------------
(* The service: every route runs initialLoad, then its handler *)

NoRequest == [endpoint |-> "", body |-> NoBody]

\* a fresh ctx: no status set by a handler yet, no body
FreshCtx == [status |-> 404, body |-> NoBody]

Init ==
    /\ phase = "idle"
    /\ state = [instance |-> Instance, mcpConfig |-> Null]
    /\ request = NoRequest
    /\ environment = Quiet
    /\ ctx = FreshCtx
    /\ calls = NoCalls
    /\ handler = ""

\* a request arrives: ctx.state.body gets the instance and its enabled
\* configuration row, undefined when the search finds none
initialLoad ==
    /\ phase \in {"idle", "done"}
    /\ \E doc \in McpConfigDocs :
          state' = [instance |-> Instance,
                    mcpConfig |-> IF doc # Null /\ doc.enabled THEN doc ELSE Null]
    /\ phase' = "loaded"
    /\ request' = NoRequest
    /\ environment' = Quiet
    /\ ctx' = FreshCtx
    /\ calls' = NoCalls
    /\ handler' = ""

\* the handler of a route ran to its end
Respond(endpoint, probe, r, h) ==
    /\ phase' = "done"
    /\ request' = [endpoint |-> endpoint, body |-> probe.body]
    /\ environment' = probe.env
    /\ ctx' = [status |-> r.status, body |-> r.body]
    /\ calls' = r.calls
    /\ handler' = h
    /\ UNCHANGED state

RouteMcp ==
    /\ phase = "loaded"
    /\ \E probe \in RouterProbes :
            LET r == mcpRouter(state, probe.body, probe.env)
            IN  Respond("mcp", probe, r, r.handler)

RouteToolsCall ==
    /\ phase = "loaded"
    /\ \E probe \in EnvelopeProbes(EndpointMethods("tools/call"))
                        \cup ParamProbes({"tools/call"}, ToolsCallParams, Envs)
                        \cup ParamProbes({"tools/call"}, BodylessCalls, BodylessEnvs) :
            Respond("tools/call", probe,
                    mcpToolsCall(state, probe.body, probe.env), "mcpToolsCall")

RouteToolsList ==
    /\ phase = "loaded"
    /\ \E probe \in EnvelopeProbes(EndpointMethods("tools/list"))
                        \cup ParamProbes({"tools/list"}, {EmptyParams}, StoreEnvs) :
            Respond("tools/list", probe,
                    mcpToolsList(state, probe.body, probe.env), "mcpToolsList")

RouteResourcesList ==
    /\ phase = "loaded"
    /\ \E probe \in EnvelopeProbes(EndpointMethods("resources/list"))
                        \cup ParamProbes({"resources/list"}, {EmptyParams}, StoreEnvs) :
            Respond("resources/list", probe,
                    mcpResourcesList(state, probe.body, probe.env), "mcpResourcesList")

RouteResourcesListRevised ==
    /\ phase = "loaded"
    /\ \E probe \in EnvelopeProbes(EndpointMethods("resources/list"))
                        \cup ParamProbes(getValidMethodsForEndpoint("resources/list"),
                                         {EmptyParams}, StoreEnvs) :
            Respond("resources/list", probe,
                    mcpResourcesListRevised(state, probe.body, probe.env),
                    "mcpResourcesListRevised")

RouteResourcesRead ==
    /\ phase = "loaded"
    /\ \E probe \in EnvelopeProbes(EndpointMethods("resources/read"))
                        \cup ParamProbes({"resources/read"}, ReadParamsSet, StoreEnvs) :
            Respond("resources/read", probe,
                    mcpResourcesRead(state, probe.body, probe.env), "mcpResourcesRead")

RouteResourcesReadRevised ==
    /\ phase = "loaded"
    /\ \E probe \in EnvelopeProbes(EndpointMethods("resources/read"))
                        \cup ParamProbes(getValidMethodsForEndpoint("resources/read"),
                                         ReadParamsSet, StoreEnvs) :
            Respond("resources/read", probe,
                    mcpResourcesReadRevised(state, probe.body, probe.env),
                    "mcpResourcesReadRevised")

RouteHandshake ==
    /\ phase = "loaded"
    /\ \E probe \in EnvelopeProbes(EndpointMethods("handshake"))
                        \cup ParamProbes({"handshake"}, HandshakeParamsSet, {Quiet}) :
            Respond("handshake", probe,
                    mcpHandshake(state, probe.body, probe.env), "mcpHandshake")

RouteInitialize ==
    /\ phase = "loaded"
    /\ \E probe \in EnvelopeProbes(EndpointMethods("initialize"))
                        \cup ParamProbes({"initialize"}, InitializeParamsSet, {Quiet}) :
            Respond("initialize", probe,
                    mcpInitialize(state, probe.body, probe.env), "mcpInitialize")

RouteInitialized ==
    /\ phase = "loaded"
    /\ \E probe \in EnvelopeProbes(EndpointMethods("notifications/initialized")) :
            Respond("notifications/initialized", probe,
                    mcpInitialized(state, probe.body, probe.env), "mcpInitialized")

RouteExecuteApi ==
    /\ phase = "loaded"
    /\ \E req \in ExecuteApiRequests, e \in Envs :
            Respond("execute-api", Probe(req, e), executeApi(state, req, e),
                    "executeApi")

Next ==
    \/ initialLoad
    \/ RouteMcp
    \/ RouteToolsCall
    \/ RouteToolsList
    \/ RouteResourcesList
    \/ RouteResourcesListRevised
    \/ RouteResourcesRead
    \/ RouteResourcesReadRevised
    \/ RouteHandshake
    \/ RouteInitialize
    \/ RouteInitialized
    \/ RouteExecuteApi

Spec == Init /\ [][Next]_vars

-----------------------------------------------------------------------------
(* Properties *)

McpEndpoints == BareMethods \cup {"mcp"}

Served(endpoints) == phase = "done" /\ request.endpoint \in endpoints

IsError(c) == ctx.body.kind = "error" /\ ctx.body.code = c

\* a tools/call that reached the tools/call logic, on its own route or
\* through the router
ToolsCallServed ==
    \/ Served({"tools/call"})
    \/ Served({"mcp"}) /\ handler = "handleToolsCall"

\* the envelope, method and params of a tools/call are acceptable and name
\* the general tool
GeneralToolCalled ==
    /\ ToolsCallServed
    /\ request.body.jsonrpc = "2.0"
    /\ request.body.id \notin {Absent, JNull}
    /\ request.body.method \in {"tools/call", "mcp/tools/call"}
    /\ request.body.params.present
    /\ request.body.params.hasArguments
    /\ request.body.params.name = VtexApiCall

StoreAnswers == ~environment.lookupFails /\ ~environment.fetchFails

\* an envelope that is a request: version "2.0" and an id that is there
IsRequest ==
    request.body.jsonrpc = "2.0" /\ request.body.id \notin {Absent, JNull}

\* the method is one the route serves (the router serves them all)
MethodOfRoute ==
    \/ request.endpoint = "mcp"
    \/ request.body.method \in {request.endpoint, Prefixed(request.endpoint)}

\* the operation the arguments of a call name, Null when there is none
ResolvedOperation(a) ==
    IF a.operationId # <<>> THEN findOperation(OpenApiSpec, a.operationId)
    ELSE IF a.method # "" /\ a.path # <<>>
              /\ findOperationByPathAndMethod(OpenApiSpec, a.method, a.path).found
    THEN findOperationByPathAndMethod(OpenApiSpec, a.method, a.path).operation
    ELSE Null

OmitsRequiredPathParam(a) ==
    /\ ResolvedOperation(a) # Null
    /\ \E i \in DOMAIN ResolvedOperation(a).parameters :
          LET q == ResolvedOperation(a).parameters[i]
          IN  q.in = "path" /\ q.required /\ ~Get(a.parameters, q.name).defined

\* C1: a vtex_api_call that omits a required path parameter of its operation
\* is answered with code -32602, and nothing is dispatched for it.
C1_MissingPathParamIsInvalidParams ==
    (/\ GeneralToolCalled
     /\ StoreAnswers
     /\ request.body.params.arguments.apiGroup = OMS
     /\ OmitsRequiredPathParam(request.body.params.arguments))
        => IsError(-32602) /\ calls.dispatched = <<>>

\* C2: when the upstream call of a tools/call fails with status S, the error
\* carries httpStatusCode S, the mapper's code for S, and HTTP status S.
C2_UpstreamStatusIsSurfaced ==
    (/\ ToolsCallServed
     /\ calls.dispatched # <<>>
     /\ ~IsSuccess(calls.dispatched[1].status))
        => /\ ctx.body.kind = "error"
           /\ ctx.body.httpStatusCode = calls.dispatched[1].status
           /\ ctx.body.code = mapStatusCodeToMCP(calls.dispatched[1].status)
           /\ ctx.status = calls.dispatched[1].status

\* the names tools/list gives this instance
ListedNames ==
    LET r == mcpToolsList(state, Envelope("2.0", Num(7), "tools/list", EmptyParams),
                          Quiet)
    IN  IF r.body.kind = "result"
        THEN {r.body.result.tools[i].name : i \in DOMAIN r.body.result.tools}
        ELSE {}

\* C3: a tools/call naming any tool that tools/list returns, the tools made
\* from favorites included, is never rejected as an unknown tool.
C3_ListedToolsAreCallable ==
    (/\ Served({"tools/call"})
     /\ request.body.jsonrpc = "2.0"
     /\ request.body.id \notin {Absent, JNull}
     /\ request.body.method \in {"tools/call", "mcp/tools/call"}
     /\ request.body.params.present
     /\ request.body.params.hasArguments
     /\ request.body.params.name \in ListedNames)
        => ~IsError(-32601)

\* C4: no tools/call is dispatched with an HTTP method that the instance's
\* configuration lists in disabledMethods.
C4_DisabledMethodsAreNotDispatched ==
    (ToolsCallServed /\ ConfigEnabled(state))
        => \A i \in DOMAIN calls.dispatched :
              calls.dispatched[i].method \notin state.mcpConfig.disabledMethods

\* C5: on each of the seven MCP endpoints, a request for an instance with no
\* enabled configuration is answered with code -32000 and no handler logic
\* runs: no lookup, no fetch, no dispatch.
C5_EveryEndpointIsGated ==
    (/\ Served(BareMethods)
     /\ IsRequest
     /\ MethodOfRoute
     /\ ~ConfigEnabled(state))
        => IsError(-32000) /\ calls = NoCalls

\* C6: an envelope with jsonrpc "2.0" and id 0 is not rejected with -32600 by
\* the router or any method handler, and the response carries id 0.
C6_IdZeroIsAccepted ==
    (/\ Served(McpEndpoints)
     /\ ConfigEnabled(state)
     /\ StoreAnswers
     /\ MethodOfRoute
     /\ request.body.jsonrpc = "2.0"
     /\ request.body.id = Num(0))
        => /\ ~IsError(-32600)
           /\ ctx.body.kind \in {"error", "result"} => ctx.body.id = Num(0)

\* C7: every response to a request that carried a non-null id carries exactly
\* that id, whether it is a result or an error of any code.
C7_ResponsesEchoTheId ==
    (/\ Served(McpEndpoints)
     /\ IsRequest
     /\ ctx.body.kind \in {"error", "result"})
        => ctx.body.id = request.body.id

\* C8: a notification (jsonrpc "2.0", no id member) gets HTTP 200 and an
\* empty body whatever its method.
C8_NotificationsGetNoBody ==
    (/\ Served(McpEndpoints)
     /\ ConfigEnabled(state)
     /\ request.body.jsonrpc = "2.0"
     /\ request.body.id = Absent)
        => ctx.status = 200 /\ ctx.body = NoBody

FourteenMethods == BareMethods \cup {Prefixed(m) : m \in BareMethods}

\* the other spelling of a routed method
TwinOf(m) ==
    IF m \in BareMethods THEN Prefixed(m)
    ELSE CHOOSE b \in BareMethods : Prefixed(b) = m

\* the handler the method table assigns to a name
ExpectedHandler(m) ==
    LET b == IF m \in BareMethods THEN m ELSE TwinOf(m)
    IN  CASE b = "handshake" -> "handleHandshake"
          [] b = "initialize" -> "handleInitialize"
          [] b = "notifications/initialized" -> "handleInitialized"
          [] b = "tools/list" -> "handleToolsList"
          [] b = "tools/call" -> "handleToolsCall"
          [] b = "resources/list" -> "handleResourcesList"
          [] b = "resources/read" -> "handleResourcesRead"

\* C9: the router enters a handler exactly for the fourteen method strings;
\* a name and its mcp/ alias enter the same handler and get the same
\* response; any other method gets code -32601 and no handler runs.
C9_RouterMethodTable ==
    (/\ Served({"mcp"})
     /\ request.body.jsonrpc = "2.0"
     /\ request.body.id # JNull)
        => IF request.body.method \in FourteenMethods
           THEN /\ handler = ExpectedHandler(request.body.method)
                /\ mcpRouter(state,
                             [request.body EXCEPT !.method = TwinOf(@)],
                             environment)
                       = [status |-> ctx.status, body |-> ctx.body,
                          calls |-> calls, handler |-> handler]
                /\ (/\ environment = Quiet
                    /\ ExpectedHandler(request.body.method)
                           \in {"handleToolsList", "handleResourcesList",
                                "handleInitialized"})
                       => ctx.status = 200
           ELSE /\ handler = ""
                /\ ctx = [status |-> 400,
                          body |-> ErrorBody(request.body.id, -32601, 0)]
                /\ calls = NoCalls

\* an aliased tools/call went through the router to the upstream API
C9_Witness ==
    /\ Served({"mcp"})
    /\ request.body.method = "mcp/tools/call"
    /\ request.body.id = Num(0)
    /\ handler = "handleToolsCall"
    /\ ctx.status = 200
    /\ Len(calls.dispatched) = 1

-----------------------------------------------------------------------------
(* Properties of path building, on the execute-api route *)

\* the escaped form of the values callers send
EscapedValue(v) ==
    CASE v = V7 -> <<"7">>
      [] v = VXY -> <<"x","%","2","F","y">>
      [] v = VBrace -> <<"%","7","B","a","%","7","D">>

Token(n) == <<"{">> \o n \o <<"}">>

\* the placeholder names of a template
PlaceholderNames(path) == {n \in Keys : Includes(path, Token(n))}

Occurrences(path, sub) ==
    Cardinality({i \in 1..Len(path) :
                    /\ i + Len(sub) - 1 <= Len(path)
                    /\ SubSeq(path, i, i + Len(sub) - 1) = sub})

\* the template with every token of a supplied name replaced by the escaped
\* value
RECURSIVE FillFrom(_, _, _)
FillFrom(path, i, bag) ==
    IF i > Len(path) THEN <<>>
    ELSE LET hit == {n \in Keys :
                        /\ bag[n].defined
                        /\ i + Len(Token(n)) - 1 <= Len(path)
                        /\ SubSeq(path, i, i + Len(Token(n)) - 1) = Token(n)}
         IN  IF hit = {} THEN <<path[i]>> \o FillFrom(path, i + 1, bag)
             ELSE LET n == CHOOSE k \in hit : TRUE
                  IN  EscapedValue(bag[n].s) \o FillFrom(path, i + Len(Token(n)), bag)

\* execute-api reached executeOperation with an operation of the document
OperationExecuted ==
    /\ Served({"execute-api"})
    /\ StoreAnswers
    /\ request.body.apiGroup = OMS
    /\ request.body.operationId # <<>>
    /\ findOperation(OpenApiSpec, request.body.operationId) # Null

ExecutedOperation == findOperation(OpenApiSpec, request.body.operationId)

ExecutedTemplate == getMethodAndPath(OpenApiSpec, request.body.operationId).path

\* a declared required parameter of the operation was given no value
RequiredMissing(locations) ==
    \E i \in DOMAIN ExecutedOperation.parameters :
        LET q == ExecutedOperation.parameters[i]
        IN  /\ q.required
            /\ q.in \in locations
            /\ \/ q.in = "path" /\ ~Get(request.body.pathParams, q.name).defined
               \/ q.in = "query" /\ ~Get(request.body.queryParams, q.name).defined
               \/ /\ q.in = "header"
                  /\ ~Get(request.body.parameters, q.name).defined
                  /\ q.name \notin MandatoryHeaders

AllPlaceholdersSupplied ==
    \A n \in PlaceholderNames(ExecutedTemplate) : request.body.pathParams[n].defined

\* one call went out, to the template with every token filled in
DispatchedFilled ==
    /\ Len(calls.dispatched) = 1
    /\ calls.dispatched[1].path = FillFrom(ExecutedTemplate, 1, request.body.pathParams)
    /\ ~HasPlaceholder(calls.dispatched[1].path)

FailedWith(k) ==
    /\ calls.dispatched = <<>>
    /\ ctx.body.success = FALSE
    /\ ctx.body.error.kind = k

TemplateDeclared ==
    \A n \in PlaceholderNames(ExecutedTemplate) :
        /\ Occurrences(ExecutedTemplate, Token(n)) = 1
        /\ \E i \in DOMAIN ExecutedOperation.parameters :
              /\ ExecutedOperation.parameters[i].name = n
              /\ ExecutedOperation.parameters[i].in = "path"

-----------------------------------------------------------------------------
(* Properties of parameter resolution, on the execute-api route *)

\* the declared parameter q is required, has no value in the bucket its
\* location selects, and is not one of the two exempt headers
MissingRequired(q) ==
    /\ q.required
    /\ \/ q.in = "path" /\ ~Get(request.body.pathParams, q.name).defined
       \/ q.in = "query" /\ ~Get(request.body.queryParams, q.name).defined
       \/ /\ q.in = "header"
          /\ ~Get(request.body.parameters, q.name).defined
          /\ q.name \notin MandatoryHeaders

\* C11: when a declared required parameter has no value in the bucket chosen
\* by its location, executeOperation fails with an error that names such a
\* parameter and its location, and nothing is dispatched; a missing Accept or
\* Content-Type header alone never makes it fail that way.
C11_RequiredParametersAreChecked ==
    OperationExecuted
        => LET ps == ExecutedOperation.parameters
           IN  IF \E i \in DOMAIN ps : MissingRequired(ps[i])
               THEN /\ FailedWith("RequiredParameterMissing")
                    /\ \E i \in DOMAIN ps :
                          /\ MissingRequired(ps[i])
                          /\ ctx.body.error.name = ps[i].name
                          /\ ctx.body.error.in = ps[i].in
               ELSE ~(/\ ctx.body.success = FALSE
                      /\ ctx.body.error.kind = "RequiredParameterMissing")

\* an operation that declares Accept and h as required headers was executed
\* with neither: the error names h, not Accept
C11_Witness ==
    /\ OperationExecuted
    /\ request.body.operationId = GetH
    /\ ~request.body.parameters[AcceptName].defined
    /\ ~request.body.parameters[HName].defined
    /\ FailedWith("RequiredParameterMissing")
    /\ ctx.body.error.name = HName
    /\ ctx.body.error.in = "header"

-----------------------------------------------------------------------------
(* Properties of parameter categorization, on the tools/call routes *)

\* the flat argument bag of the call and what categorizeParameters makes of it
FlatArgs == request.body.params.arguments.parameters

Categorized ==
    LET a == request.body.params.arguments
    IN  categorizeParameters(OpenApiSpec,
                             [isString |-> a.operationId # <<>>,
                              operationId |-> a.operationId,
                              method |-> a.method, path |-> a.path],
                             FlatArgs)

\* the bucket the claim assigns to a key: the location of the first declared
\* parameter of that name when it is path, query or header, else query
ClaimedBucket(n) ==
    LET op == ResolvedOperation(request.body.params.arguments)
    IN  IF op = Null THEN "query"
        ELSE LET named == {i \in DOMAIN op.parameters : op.parameters[i].name = n}
             IN  IF named = {} THEN "query"
                 ELSE LET first == CHOOSE i \in named : \A j \in named : i <= j
                      IN  IF op.parameters[first].in \in {"path", "query", "header"}
                          THEN op.parameters[first].in
                          ELSE "query"

BucketsHolding(n) ==
    {loc \in {"path", "query", "header"} :
        CASE loc = "path" -> Categorized.pathParams[n].defined
          [] loc = "query" -> Categorized.queryParams[n].defined
          [] loc = "header" -> Categorized.headers[n].defined}

ValueIn(loc, n) ==
    CASE loc = "path" -> Categorized.pathParams[n]
      [] loc = "query" -> Categorized.queryParams[n]
      [] loc = "header" -> Categorized.headers[n]

\* C12: categorizeParameters puts every key of the flat bag, value unchanged,
\* into exactly one bucket: the declared location when that is path, query or
\* header, queryParams otherwise; it drops no key and adds none.
C12_EveryKeyInOneBucket ==
    GeneralToolCalled
        => \A n \in Keys :
              IF FlatArgs[n].defined
              THEN /\ BucketsHolding(n) = {ClaimedBucket(n)}
                   /\ ValueIn(ClaimedBucket(n), n) = FlatArgs[n]
              ELSE BucketsHolding(n) = {}

\* a call that gave a header and an undeclared key went out with the header
\* among the headers and the other key in the query
C12_Witness ==
    /\ GeneralToolCalled
    /\ request.body.params.arguments.operationId = GetH
    /\ FlatArgs[HName] = Val(V7)
    /\ FlatArgs[<<"q">>] = Val(V7)
    /\ Len(calls.dispatched) = 1
    /\ calls.dispatched[1].headers[HName] = Val(V7)
    /\ calls.dispatched[1].query[<<"q">>] = Val(V7)
    /\ ~calls.dispatched[1].query[HName].defined

-----------------------------------------------------------------------------
(* Properties of validation in tools/call *)

\* the envelope, method or params of the tools/call fail validation (an
\* envelope without id is a notification to the router, and malformed only
\* on the tools/call route)
MalformedCall ==
    \/ request.body.jsonrpc # "2.0"
    \/ request.body.id = JNull
    \/ request.body.id = Absent /\ request.endpoint = "tools/call"
    \/ request.body.method \notin getValidMethodsForEndpoint("tools/call")
    \/ ~request.body.params.present
    \/ request.body.params.name = <<>>
    \/ ~request.body.params.hasArguments

\* the arguments of a general tool lack apiGroup, or name no operation
IncompleteArguments ==
    /\ ~MalformedCall
    /\ request.body.params.name \in {VtexApiCall, VtexApiSpecification}
    /\ LET a == request.body.params.arguments
       IN  \/ a.apiGroup = <<>>
           \/ a.operationId = <<>> /\ ~(a.method # "" /\ a.path # <<>>)

\* C13: every validation failure of a tools/call is answered with its -326xx
\* error before any network activity: no lookup, no fetch, no dispatch.
C13_ValidationBeforeNetwork ==
    (ToolsCallServed /\ (MalformedCall \/ IncompleteArguments))
        => /\ ctx.body.kind = "error"
           /\ ctx.body.code \in {-32600, -32601, -32602}
           /\ calls = NoCalls

-----------------------------------------------------------------------------
(* Properties of by-id resolution *)

UpperOf(c) ==
    IF \E i \in DOMAIN LowerChars : LowerChars[i] = c
    THEN UpperChars[CHOOSE i \in DOMAIN LowerChars : LowerChars[i] = c]
    ELSE c

LowerOf(c) ==
    IF \E i \in DOMAIN UpperChars : UpperChars[i] = c
    THEN LowerChars[CHOOSE i \in DOMAIN UpperChars : UpperChars[i] = c]
    ELSE c

\* spellings of an id: as written, all upper, all lower, and alternating
SpellingsOf(id) ==
    {id, [i \in DOMAIN id |-> UpperOf(id[i])], [i \in DOMAIN id |-> LowerOf(id[i])],
     [i \in DOMAIN id |-> IF i % 2 = 1 THEN LowerOf(id[i]) ELSE UpperOf(id[i])],
     [i \in DOMAIN id |-> IF i % 2 = 1 THEN UpperOf(id[i]) ELSE LowerOf(id[i])]}

\* the operationId values of the document
DocumentIds ==
    UNION {{OpenApiSpec.paths[i].item[m].operationId :
               m \in DOMAIN OpenApiSpec.paths[i].item} :
           i \in DOMAIN OpenApiSpec.paths}

\* an operation was asked for by id, on a route that resolves it
ByIdServed ==
    /\ StoreAnswers
    /\ \/ Served({"execute-api"}) /\ request.body.apiGroup = OMS
       \/ GeneralToolCalled /\ request.body.params.arguments.apiGroup = OMS

RequestedId ==
    IF request.endpoint = "execute-api" THEN request.body.operationId
    ELSE request.body.params.arguments.operationId

\* C14: whatever the casing of an operationId of the document, findOperation
\* and getMethodAndPath of the executor and findOperation of the categorizer
\* give the same operation and the same (method, path).
C14_ResolutionIgnoresCase ==
    ByIdServed
        => \A id \in DocumentIds :
              RequestedId \in SpellingsOf(id)
                  => /\ findOperation(OpenApiSpec, RequestedId) # Null
                     /\ \A v \in SpellingsOf(id) :
                           /\ findOperation(OpenApiSpec, v)
                                  = findOperation(OpenApiSpec, RequestedId)
                           /\ getMethodAndPath(OpenApiSpec, v)
                                  = getMethodAndPath(OpenApiSpec, RequestedId)
                           /\ categorizerFindOperation(OpenApiSpec, v)
                                  = findOperation(OpenApiSpec, RequestedId)
                     /\ getMethodAndPath(OpenApiSpec, RequestedId).found
                     /\ \A k \in DOMAIN calls.dispatched :
                           calls.dispatched[k].method
                               = getMethodAndPath(OpenApiSpec, id).method

\* PutAB asked for as pUtAb went out as PUT
C14_Witness ==
    /\ ByIdServed
    /\ RequestedId = <<"p","U","t","A","b">>
    /\ Len(calls.dispatched) = 1
    /\ calls.dispatched[1].method = "PUT"

-----------------------------------------------------------------------------
(* Properties of the choice between the two resolution strategies *)

\* a vtex_api_call on the tools/call route whose operationId matches nothing
\* while its method and path name an operation of the document, with a value
\* for every required parameter of that operation
IdMissesPathMatches ==
    LET a == request.body.params.arguments
        mp == findOperationByPathAndMethod(OpenApiSpec, a.method, a.path)
    IN  /\ Served({"tools/call"})
        /\ GeneralToolCalled
        /\ StoreAnswers
        /\ a.apiGroup = OMS
        /\ a.operationId # <<>>
        /\ findOperation(OpenApiSpec, a.operationId) = Null
        /\ a.method # ""
        /\ a.path # <<>>
        /\ mp.found
        /\ \A i \in DOMAIN mp.operation.parameters :
              mp.operation.parameters[i].required
                  => FlatArgs[mp.operation.parameters[i].name].defined

\* C15: resolution fails as operation-not-found only when neither strategy
\* matches: an operationId that matches nothing, given with a method and path
\* that match, resolves to the operation of that method and path, which is
\* then dispatched.
C15_FallsBackToMethodAndPath ==
    IdMissesPathMatches
        => /\ Len(calls.dispatched) = 1
           /\ calls.dispatched[1].method
                  = toUpperVerb(toLowerVerb(request.body.params.arguments.method))

-----------------------------------------------------------------------------
(* The error mapper on its own: mapHttpErrorToMCP applied to thrown values
   that carry a status at any of the five places it probes *)

StatusValues == {400, 401, 403, 404, 405, 422, 429, 500, 502, 503, 504, 418}

StatusMembers == {"status", "statusCode", "responseStatus",
                  "responseStatusCode", "metadataStatusCode"}

\* a thrown value with the given members set
WithStatus(f) ==
    [message |-> NoMessage, error |-> NoMessage,
     status |-> f["status"], statusCode |-> f["statusCode"],
     responseStatus |-> f["responseStatus"],
     responseStatusCode |-> f["responseStatusCode"],
     metadataStatusCode |-> f["metadataStatusCode"]]

\* no status, one status at one place, or two different ones at two places
ProbedErrors ==
    {WithStatus([m \in StatusMembers |-> 0])}
        \cup {WithStatus([m \in StatusMembers |-> IF m = k THEN v ELSE 0]) :
                 k \in StatusMembers, v \in StatusValues}
        \cup {WithStatus([m \in StatusMembers |->
                             IF m = k THEN 404 ELSE IF m = l THEN 503 ELSE 0]) :
                 k \in StatusMembers, l \in StatusMembers}

MapperInit ==
    /\ phase = "thrown"
    /\ state = [instance |-> Instance, mcpConfig |-> Null]
    /\ \E e \in ProbedErrors : request = [endpoint |-> "errorMapper", body |-> e]
    /\ environment = Quiet
    /\ ctx = FreshCtx
    /\ calls = NoCalls
    /\ handler = ""

\* const mcpError = mapHttpErrorToMCP(error), written to the response the
\* way the catch block of tools/call does
MapHttpError ==
    /\ phase = "thrown"
    /\ phase' = "mapped"
    /\ LET mcpError == mapHttpErrorToMCP(request.body)
       IN  ctx' = [status |-> mcpError.httpStatusCode,
                   body |-> ErrorBody(JNull, mcpError.code, mcpError.httpStatusCode)]
    /\ UNCHANGED <<state, request, environment, calls, handler>>

MapperNext == MapHttpError

MapperSpec == MapperInit /\ [][MapperNext]_vars

\* the status the mapper is to use: the first one there is, probing
\* status, statusCode, response.status, response.statusCode,
\* metadata.statusCode in that order; 500 when there is none
ProbedStatus(e) ==
    LET order == <<e.status, e.statusCode, e.responseStatus,
                   e.responseStatusCode, e.metadataStatusCode>>
        there == {i \in DOMAIN order : order[i] # 0}
    IN  IF there = {} THEN 500
        ELSE order[CHOOSE i \in there : \A j \in there : i <= j]

\* the table of the claim
TableCode(status) ==
    IF status \in {400, 404, 422} THEN -32602
    ELSE IF status \in {401, 403} THEN -32600
    ELSE IF status = 405 THEN -32601
    ELSE -32603

\* C16: the mapper gives 400, 404, 422 -> -32602; 401, 403 -> -32600;
\* 405 -> -32601; every other status -> -32603; a value with no status is
\* mapped as 500; httpStatusCode is the status the code was mapped from.
C16_ErrorMappingTable ==
    phase = "mapped"
        => /\ ctx.body.httpStatusCode = ProbedStatus(request.body)
           /\ ctx.body.code = TableCode(ProbedStatus(request.body))

\* a value with response.status 404 and metadata.statusCode 503 was mapped
\* from the 404
C16_Witness ==
    /\ phase = "mapped"
    /\ request.body.status = 0
    /\ request.body.responseStatus = 404
    /\ request.body.metadataStatusCode = 503
    /\ ctx.body.code = -32602
    /\ ctx.body.httpStatusCode = 404

-----------------------------------------------------------------------------
(* tools/list: the tools made from favorites *)

\* a tools/list answered with a tools array by its own middleware
ToolsListed ==
    /\ Served({"tools/list"})
    /\ ctx.body.kind = "result"
    /\ ctx.body.result.type = "tools"

\* the names of the parameters an operation declares in the path
PathParameterNames(operation) ==
    {operation.parameters[i].name :
        i \in {j \in DOMAIN operation.parameters :
                  operation.parameters[j].in = "path"}}

\* the favorite's group has an enabled spec whose document was fetched, and
\* the document has the favorite's operation
Resolves(fav) ==
    /\ getAPISpecByGroup(fav.apiGroup) # Null
    /\ ~FetchThrows(getAPISpecByGroup(fav.apiGroup).specUrl, environment)
    /\ FavoriteOperation(OpenApiSpec, fav) # Null

FavoriteToolName(fav) == sanitizeName(fav.apiGroup \o <<"_">> \o fav.operationId)

\* the tools of the response that carry the favorite's name
ToolsOf(fav) ==
    {j \in DOMAIN ctx.body.result.tools :
        ctx.body.result.tools[j].name = FavoriteToolName(fav)}

\* C17: for every favorite whose operation resolves, the required list of
\* its tool holds the name of every in=path parameter of the operation,
\* flagged required in the document or not.
C17_PathParametersAreRequired ==
    ToolsListed
        => \A i \in DOMAIN getFavorites(state.instance) :
              LET fav == getFavorites(state.instance)[i]
              IN  Resolves(fav)
                      => /\ ToolsOf(fav) # {}
                         /\ \A j \in ToolsOf(fav) :
                               PathParameterNames(FavoriteOperation(OpenApiSpec, fav))
                                   \subseteq Range(ctx.body.result.tools[j].required)

\* the tool of the favorite "putab" is listed, and requires the path
\* parameter b that the document does not flag
C17_Witness ==
    /\ ToolsListed
    /\ \E j \in DOMAIN ctx.body.result.tools :
          /\ ctx.body.result.tools[j].name
                 = sanitizeName(OMS \o <<"_">> \o <<"p","u","t","a","b">>)
          /\ ctx.body.result.tools[j].required = << <<"a">>, <<"b">> >>

\* the names of the tools of the favorites that resolve, in the order of
\* the favorites
RECURSIVE ResolvedNames(_)
ResolvedNames(favorites) ==
    IF favorites = <<>> THEN <<>>
    ELSE (IF Resolves(Head(favorites))
          THEN <<FavoriteToolName(Head(favorites))>> ELSE <<>>)
             \o ResolvedNames(Tail(favorites))

\* a tools/list request that passes the gate and the envelope and method
\* checks, while the store answers the two searches
ListingAsked ==
    /\ Served({"tools/list"})
    /\ ConfigEnabled(state)
    /\ IsRequest
    /\ request.body.method \in {"tools/list", "mcp/tools/list"}
    /\ ~environment.lookupFails

\* a favorite of the instance that the listing has to skip
SkippedFavorites ==
    {i \in DOMAIN getFavorites(state.instance) :
        ~Resolves(getFavorites(state.instance)[i])}

\* C18: no favorite makes tools/list fail: a favorite whose group's fetch
\* throws, whose group has no enabled spec, or whose operation is found
\* neither by id nor by method and path is skipped, and the answer is a
\* success with the two fixed tools and the tools of all other favorites.
C18_FavoritesNeverFailTheListing ==
    ListingAsked
        => /\ ctx.status = 200
           /\ ctx.body.kind = "result"
           /\ ctx.body.result.type = "tools"
           /\ [j \in DOMAIN ctx.body.result.tools |-> ctx.body.result.tools[j].name]
                  = <<VtexApiCall, VtexApiSpecification>>
                        \o ResolvedNames(getFavorites(state.instance))

\* a listing with the network up that skipped a favorite of the dead group,
\* one of the disabled group and two of an unknown operation, and lists
\* three others
C18_Witness ==
    /\ ListingAsked
    /\ ~environment.fetchFails
    /\ \E i \in SkippedFavorites :
          getFavorites(state.instance)[i].apiGroup = BAD
    /\ \E i \in SkippedFavorites :
          getFavorites(state.instance)[i].apiGroup = OLD
    /\ \E i \in SkippedFavorites :
          /\ getFavorites(state.instance)[i].operationId = GoneId
          /\ getFavorites(state.instance)[i].httpMethod = "POST"
    /\ ctx.status = 200
    /\ Len(ctx.body.result.tools) = 7

-----------------------------------------------------------------------------
(* resources/read *)

\* a resources/read that reached the resources/read logic, on its own route
\* or through the router
ResourcesReadServed ==
    \/ Served({"resources/read"})
    \/ Served({"mcp"}) /\ handler = "handleResourcesRead"

\* the uri of the request is this prefix followed by something
UriHas(prefix) ==
    /\ request.body.params.present
    /\ StartsWith(request.body.params.uri, prefix)

\* the uri is of the api-spec scheme and names a group of which the store
\* has no enabled spec
NamesUnknownGroup ==
    /\ UriHas(ApiSpecPrefix)
    /\ \A i \in DOMAIN SpecStore :
          SpecStore[i].apiGroup = AfterPrefix(request.body.params.uri, ApiSpecPrefix)
              => ~SpecStore[i].enabled

\* the envelope and the method of the request are the ones the handler that
\* served it takes: the earlier copy of the middleware turns away id 0 and
\* the prefixed method name
ReadEnvelopeTaken ==
    /\ request.body.jsonrpc = "2.0"
    /\ IF handler = "mcpResourcesRead"
       THEN Truthy(request.body.id) /\ request.body.method = "resources/read"
       ELSE /\ request.body.id # JNull
            /\ (request.endpoint = "mcp" \/ request.body.id # Absent)
            /\ request.body.method \in getValidMethodsForEndpoint("resources/read")

\* C19: a resources/read whose api-spec uri names a group that has no
\* enabled spec is answered with code -32602, and never with -32603.
C19_UnknownGroupIsInvalidParams ==
    (ResourcesReadServed /\ NamesUnknownGroup /\ ~environment.lookupFails)
        => /\ ~IsError(-32603)
           /\ ReadEnvelopeTaken => (IsError(-32602) /\ ctx.status = 404)

\* the revised middleware answered a read of the disabled group OLD, sent
\* with id 0, with 404 and -32602 after one lookup and no fetch
C19_Witness ==
    /\ Served({"resources/read"})
    /\ handler = "mcpResourcesReadRevised"
    /\ request.body.id = Num(0)
    /\ request.body.params.present
    /\ request.body.params.uri = ApiSpecPrefix \o OLD
    /\ ~environment.lookupFails
    /\ IsError(-32602)
    /\ ctx.status = 404
    /\ calls = [NoCalls EXCEPT !.lookups = 1]

\* C20: resources/read serves api-spec uris only: a uri of any other
\* scheme, vtex://api-path/... included, is answered with code -32602 and
\* no content.
C20_OnlyApiSpecUrisAreServed ==
    (/\ ResourcesReadServed
     /\ ReadEnvelopeTaken
     /\ StoreAnswers
     /\ request.body.params.present
     /\ request.body.params.uri # <<>>
     /\ ~UriHas(ApiSpecPrefix))
        => IsError(-32602) /\ ctx.body.kind # "result"

\* a read of an api-spec uri of an enabled group whose document was fetched
KnownGroupRead ==
    /\ ResourcesReadServed
    /\ ReadEnvelopeTaken
    /\ UriHas(ApiSpecPrefix)
    /\ ~environment.lookupFails
    /\ getAPISpecByGroup(AfterPrefix(request.body.params.uri, ApiSpecPrefix)) # Null
    /\ ~FetchThrows(
           getAPISpecByGroup(AfterPrefix(request.body.params.uri,
                                         ApiSpecPrefix)).specUrl,
           environment)

\* C21: a resources/read of an api-spec uri of a known enabled group returns
\* one content item, of mimeType application/json, whose text is the
\* serialization of the whole fetched document, unmodified.
C21_ReadReturnsTheWholeDocument ==
    KnownGroupRead
        => /\ ctx.status = 200
           /\ ctx.body.kind = "result"
           /\ Len(ctx.body.result.contents) = 1
           /\ ctx.body.result.contents[1].mimeType = "application/json"
           /\ ctx.body.result.contents[1].text = JSONStringify(OpenApiSpec)

-----------------------------------------------------------------------------
(* resources/list *)

\* a resources/list answered with a resources array, on its own route or
\* through the router
ResourcesListed ==
    /\ \/ Served({"resources/list"})
       \/ Served({"mcp"}) /\ handler = "handleResourcesList"
    /\ ctx.body.kind = "result"
    /\ ctx.body.result.type = "resources"

\* the groups that have an enabled document in the store
EnabledGroups ==
    {SpecStore[i].apiGroup : i \in {j \in DOMAIN SpecStore : SpecStore[j].enabled}}

\* C22: resources/list returns exactly one descriptor per enabled group,
\* with uri vtex://api-spec/{group}: none missing, no disabled group, none
\* twice.
C22_OneResourcePerEnabledGroup ==
    ResourcesListed
        => /\ Range(ctx.body.result.uris)
                  = {ApiSpecPrefix \o g : g \in EnabledGroups}
           /\ Len(ctx.body.result.uris) = Cardinality(EnabledGroups)

-----------------------------------------------------------------------------
(* MasterDataService: one instance, its cache, and the store behind it *)

\* cacheTTL = 5 * 60 * 1000, in minutes
cacheTTL == 5

\* the clock stops here
MaxNow == 7

\* minutes that pass between two calls when time passes
TickStep == 3

\* writes that are counted
MaxWrites == 2

\* the (apiGroup, version) pairs a document is uploaded under
DocKeys == <<[apiGroup |-> OMS, version |-> 1], [apiGroup |-> OMS, version |-> 2],
             [apiGroup |-> OLD, version |-> 1]>>

ServiceGroups == {DocKeys[i].apiGroup : i \in DOMAIN DocKeys}

\* a document of the store as the service returns it; the id of the document
\* of a pair is the pair's index
SpecRow(i, enabled) ==
    [id |-> i, apiGroup |-> DocKeys[i].apiGroup, version |-> DocKeys[i].version,
     enabled |-> enabled]

\* cache keys: 'all_specs' and `group_${group}`
AllSpecsKey == <<"all_specs">>

GroupKey(group) == <<"group_", group>>

CacheKeys == {AllSpecsKey} \cup {GroupKey(g) : g \in ServiceGroups}

\* a key that neither map holds
NoEntry == [set |-> FALSE]

\* an entry of cache and cacheTimestamps; writes is the number of writes the
\* service had done when the entry was set
Entry(value, now, writes) ==
    [set |-> TRUE, value |-> value, timestamp |-> now, writes |-> writes]

EmptyCache == [k \in CacheKeys |-> NoEntry]

isCacheValid(svc, key) ==
    svc.cache[key].set /\ svc.now - svc.cache[key].timestamp < cacheTTL

setCache(svc, key, value, writes) ==
    [svc EXCEPT !.cache[key] = Entry(value, svc.now, writes)]

clearCache(svc, key) == [svc EXCEPT !.cache[key] = NoEntry]

clearAllCache(svc) == [svc EXCEPT !.cache = EmptyCache]

\* the indices of the documents a search with `enabled=true` finds
EnabledDocs(svc) == {i \in DOMAIN DocKeys : svc.store[i] = "on"}

\* the rows of a set of documents, in the order of the store
RECURSIVE RowsOf(_, _, _)
RowsOf(svc, docs, i) ==
    IF i > Len(DocKeys) THEN <<>>
    ELSE (IF i \in docs THEN <<SpecRow(i, svc.store[i] = "on")>> ELSE <<>>)
             \o RowsOf(svc, docs, i + 1)

Returned(value) == [status |-> "returned", body |-> value]

Threw == [status |-> "threw", body |-> Null]

ServiceInit ==
    /\ phase = "service"
    /\ state = [store |-> [i \in DOMAIN DocKeys |-> "none"], cache |-> EmptyCache,
                now |-> 1]
    /\ request = [endpoint |-> "new MasterDataService", body |-> Null]
    /\ environment = Quiet
    /\ ctx = Returned(Null)
    /\ calls = [writes |-> 0, fromCache |-> FALSE, listed |-> Null]
    /\ handler = ""

\* the call, its outcome and the service after it
Called(name, arg, svc, outcome, fromCache) ==
    /\ phase' = "service"
    /\ state' = svc
    /\ request' = [endpoint |-> name, body |-> arg]
    /\ ctx' = outcome
    /\ handler' = name
    /\ UNCHANGED environment

getAPISpecsCall ==
    /\ phase = "service"
    /\ IF isCacheValid(state, AllSpecsKey)
       THEN /\ Called("getAPISpecs", Null, state,
                      Returned(<<state.cache[AllSpecsKey].value>>), TRUE)
            /\ calls' = [calls EXCEPT !.fromCache = TRUE]
       ELSE \/ LET specs == RowsOf(state, EnabledDocs(state), 1)
               IN  /\ Called("getAPISpecs", Null,
                             setCache(state, AllSpecsKey, specs, calls.writes),
                             Returned(specs), FALSE)
                   /\ calls' = [calls EXCEPT !.fromCache = FALSE, !.listed = specs]
            \/ /\ Called("getAPISpecs", Null, state, Threw, FALSE)
               /\ calls' = [calls EXCEPT !.fromCache = FALSE]

\* the search has page size 1 and no sort: any enabled document of the group
\* may be the one it finds
getAPISpecByGroupCall ==
    /\ phase = "service"
    /\ \E group \in ServiceGroups :
          IF isCacheValid(state, GroupKey(group))
          THEN /\ Called("getAPISpecByGroup", group, state,
                         Returned(state.cache[GroupKey(group)].value), TRUE)
               /\ calls' = [calls EXCEPT !.fromCache = TRUE]
          ELSE /\ calls' = [calls EXCEPT !.fromCache = FALSE]
               /\ LET hits == {i \in EnabledDocs(state) : DocKeys[i].apiGroup = group}
                  IN  \/ /\ hits = {}
                         /\ Called("getAPISpecByGroup", group, state,
                                   Returned(Null), FALSE)
                      \/ \E i \in hits :
                            Called("getAPISpecByGroup", group,
                                   setCache(state, GroupKey(group), SpecRow(i, TRUE),
                                            calls.writes),
                                   Returned(SpecRow(i, TRUE)), FALSE)
                      \/ Called("getAPISpecByGroup", group, state, Threw, FALSE)

\* createOrUpdateEntireDocument under the id of the document of the same
\* group and version, a new document when there is none
saveAPISpecCall ==
    /\ phase = "service"
    /\ calls.writes < MaxWrites
    /\ \E i \in DOMAIN DocKeys, enabled \in BOOLEAN :
          LET existing == state.store[i] # "none"
              written == [state EXCEPT !.store[i] = IF enabled THEN "on" ELSE "off"]
              cleared == clearCache(written, AllSpecsKey)
          IN  \/ /\ Called("saveAPISpec", SpecRow(i, enabled),
                           IF existing
                           THEN setCache(cleared, GroupKey(DocKeys[i].apiGroup),
                                         SpecRow(i, enabled), calls.writes + 1)
                           ELSE cleared,
                           Returned(SpecRow(i, enabled)), FALSE)
                 /\ calls' = [calls EXCEPT !.writes = @ + 1, !.fromCache = FALSE]
              \/ /\ Called("saveAPISpec", SpecRow(i, enabled), state, Threw, FALSE)
                 /\ calls' = [calls EXCEPT !.fromCache = FALSE]

\* updatePartialDocument {enabled: false}
disableAPISpecCall ==
    /\ phase = "service"
    /\ calls.writes < MaxWrites
    /\ \E i \in DOMAIN DocKeys :
          /\ state.store[i] # "none"
          /\ \/ /\ Called("disableAPISpec", SpecRow(i, FALSE),
                          clearAllCache([state EXCEPT !.store[i] = "off"]),
                          Returned(Null), FALSE)
                /\ calls' = [calls EXCEPT !.writes = @ + 1, !.fromCache = FALSE]
             \/ /\ Called("disableAPISpec", SpecRow(i, FALSE), state, Threw, FALSE)
                /\ calls' = [calls EXCEPT !.fromCache = FALSE]

deleteAPISpecCall ==
    /\ phase = "service"
    /\ calls.writes < MaxWrites
    /\ \E i \in DOMAIN DocKeys :
          /\ state.store[i] # "none"
          /\ \/ /\ Called("deleteAPISpec", SpecRow(i, state.store[i] = "on"),
                          clearAllCache([state EXCEPT !.store[i] = "none"]),
                          Returned(Null), FALSE)
                /\ calls' = [calls EXCEPT !.writes = @ + 1, !.fromCache = FALSE]
             \/ /\ Called("deleteAPISpec", SpecRow(i, state.store[i] = "on"),
                          state, Threw, FALSE)
                /\ calls' = [calls EXCEPT !.fromCache = FALSE]

\* Date.now() moves on between two calls
Tick ==
    /\ phase = "service"
    /\ state.now + TickStep <= MaxNow
    /\ state' = [state EXCEPT !.now = @ + TickStep]
    /\ UNCHANGED <<phase, request, environment, ctx, calls, handler>>

ServiceNext ==
    \/ getAPISpecsCall
    \/ getAPISpecByGroupCall
    \/ saveAPISpecCall
    \/ disableAPISpecCall
    \/ deleteAPISpecCall
    \/ Tick

ServiceSpec == ServiceInit /\ [][ServiceNext]_vars

\* the last call was a write that the store accepted
WroteLast ==
    /\ phase = "service"
    /\ handler \in {"saveAPISpec", "disableAPISpec", "deleteAPISpec"}
    /\ ctx.status = "returned"

\* C23: after a successful saveAPISpec, disableAPISpec or deleteAPISpec, the
\* all-specs entry and the entry of the written group hold nothing that was
\* cached before that write.
C23_WritesInvalidateTheCache ==
    WroteLast
        => \A k \in {AllSpecsKey, GroupKey(request.body.apiGroup)} :
              state.cache[k].set => state.cache[k].writes = calls.writes

\* C25: a getAPISpecs answered from the cache returns the list of rows that
\* the store-backed getAPISpecs before it returned.
C25_CachedListIsTheListedRows ==
    (phase = "service" /\ handler = "getAPISpecs" /\ calls.fromCache)
        => ctx.body = calls.listed

\* C26: getAPISpecByGroup(g) returns null or a row of group g that is
\* enabled, after any sequence of reads and writes on the service.
C26_OnlyEnabledRowsOfTheGroup ==
    (phase = "service" /\ handler = "getAPISpecByGroup" /\ ctx.status = "returned")
        => \/ ctx.body = Null
           \/ /\ ctx.body.apiGroup = request.body
              /\ ctx.body.enabled

-----------------------------------------------------------------------------
(* executeOperation and the response of the HTTP client *)

\* a vtex_api_call was dispatched, the upstream API answered 2xx, and the
\* client resolved with no body: an object without data, '', null, undefined
ResolvedWithoutBody ==
    /\ ToolsCallServed
    /\ calls.dispatched # <<>>
    /\ IsSuccess(environment.upstream.status)
    /\ environment.upstream.response \in {"noData", "empty", "null", "undefined"}

\* C24: when the HTTP client returns successfully with no body, undefined,
\* null or empty, executeOperation returns a success result and does not
\* throw: the call is answered with a result.
C24_NoBodyIsASuccess ==
    ResolvedWithoutBody => (ctx.status = 200 /\ ctx.body.kind = "result")

-----------------------------------------------------------------------------
(* categorizeParameters followed by resolveParameters, on one operation *)

\* the operations of the document
DocumentOperations ==
    UNION {{OpenApiSpec.paths[i].item[m] : m \in DOMAIN OpenApiSpec.paths[i].item} :
              i \in DOMAIN OpenApiSpec.paths}

\* an operation with a required cookie parameter, and one that declares the
\* name a in the path and in the query
ProbedOperations ==
    DocumentOperations
        \cup {Operation(<<"C">>, <<Parameter(CName, "cookie", TRUE)>>),
              Operation(<<"T">>, <<Parameter(<<"a">>, "path", TRUE),
                                   Parameter(<<"a">>, "query", TRUE)>>)}

\* every flat object over the names, each name absent or with a value
FlatBags == [Keys -> {Undefined, Val(V7)}]

\* a document whose only operation is this one
DocumentOf(operation) ==
    [paths |-> <<[path |-> PathH, item |-> [m \in {"get"} |-> operation]]>>]

ParamsInit ==
    /\ phase = "drawn"
    /\ state = [instance |-> Instance, mcpConfig |-> Null]
    /\ \E operation \in ProbedOperations, parameters \in FlatBags :
          request = [endpoint |-> "categorizeParameters",
                     body |-> [operation |-> operation, parameters |-> parameters]]
    /\ environment = Quiet
    /\ ctx = FreshCtx
    /\ calls = NoCalls
    /\ handler = ""

\* categorizeParameters(openApiSpec, operationId, parameters), and then the
\* resolveParameters of executeOperation on the three buckets
CategorizeAndResolve ==
    /\ phase = "drawn"
    /\ phase' = "resolved"
    /\ LET operation == request.body.operation
           categorizedParams ==
               categorizeParameters(
                   DocumentOf(operation),
                   [isString |-> TRUE, operationId |-> operation.operationId,
                    method |-> "", path |-> <<>>],
                   request.body.parameters)
       IN  ctx' = [status |-> 0,
                   body |-> resolveParameters(operation.parameters,
                                              categorizedParams.pathParams,
                                              categorizedParams.queryParams,
                                              categorizedParams.headers)]
    /\ UNCHANGED <<state, request, environment, calls, handler>>

ParamsNext == CategorizeAndResolve

ParamsSpec == ParamsInit /\ [][ParamsNext]_vars

\* the flat object has a value for every required declared parameter
AllRequiredSupplied ==
    \A i \in DOMAIN request.body.operation.parameters :
        request.body.operation.parameters[i].required
            => request.body.parameters[request.body.operation.parameters[i].name].defined

\* C27: when the flat object holds a value for each required declared
\* parameter of the operation, categorizeParameters followed by the
\* executor's required-parameter check reports no missing parameter,
\* whatever location each parameter declares.
C27_SuppliedParametersAreFound ==
    (phase = "resolved" /\ AllRequiredSupplied) => ~ctx.body.threw

-----------------------------------------------------------------------------
(* vtex_api_specification and vtex_api_call on one locator *)

\* the envelope, method and params of a tools/call are acceptable and name
\* the specification tool, on the route of the middleware (the router's own
\* handler knows vtex_api_call only)
SpecificationToolCalled ==
    /\ Served({"tools/call"})
    /\ request.body.jsonrpc = "2.0"
    /\ request.body.id \notin {Absent, JNull}
    /\ request.body.method \in {"tools/call", "mcp/tools/call"}
    /\ request.body.params.present
    /\ request.body.params.hasArguments
    /\ request.body.params.name = VtexApiSpecification

\* the path template of the operation executeOperation runs for these
\* arguments: the id is looked up first, method and path are the fallback
ExecutedPath(a) ==
    IF a.operationId # <<>> THEN getMethodAndPath(OpenApiSpec, a.operationId).path
    ELSE a.path

\* C28: vtex_api_specification and vtex_api_call resolve one locator to one
\* operation: whenever the arguments name an operation that vtex_api_call
\* would execute (by an operationId in any casing, or by method and path, or
\* by both), vtex_api_specification answers with the specification of that
\* operation's path template.
C28_SpecificationOfTheExecutedOperation ==
    (/\ SpecificationToolCalled
     /\ StoreAnswers
     /\ request.body.params.arguments.apiGroup = OMS
     /\ ResolvedOperation(request.body.params.arguments) # Null)
        => /\ ctx.body.kind = "result"
           /\ ctx.body.result.path = ExecutedPath(request.body.params.arguments)

-----------------------------------------------------------------------------
(* The names of one tools/list answer *)

\* C29: within one tools/list answer the tool names are pairwise distinct:
\* no two favorites yield the same name, and no favorite tool carries the
\* name of one of the two fixed tools.
C29_ToolNamesAreDistinct ==
    ToolsListed
        => \A i, j \in DOMAIN ctx.body.result.tools :
              i # j => ctx.body.result.tools[i].name # ctx.body.result.tools[j].name

-----------------------------------------------------------------------------
(* The protocol versions of handshake and of initialize *)

\* a handshake was answered with its result
HandshakeAnswered ==
    /\ phase = "done"
    /\ handler \in {"mcpHandshake", "handleHandshake"}
    /\ ctx.body.kind = "result"

\* an initialize was answered with its result
InitializeAnswered ==
    /\ phase = "done"
    /\ handler \in {"mcpInitialize", "handleInitialize"}
    /\ ctx.body.kind = "result"

\* the answer of initialize to a complete request for this version, and of
\* handshake to a request for it, in the envelope of the request at hand
InitializeOf(version) ==
    InitializeRun([request.body EXCEPT
                      !.params = InitializeParams(version, TRUE, TRUE)])

HandshakeOf(version) ==
    HandshakeRun([request.body EXCEPT !.params = HandshakeParams(version)])

\* C30: handshake and initialize agree on the protocol versions: a version
\* that handshake reports compatible is accepted by initialize, and a
\* version that initialize accepts is reported compatible by handshake.
C30_HandshakeAndInitializeAgree ==
    /\ (HandshakeAnswered /\ ctx.body.result.compatible)
           => InitializeOf(request.body.params.version).status = 200
    /\ InitializeAnswered
           => HandshakeOf(request.body.params.protocolVersion).body.result.compatible

====
